---- MODULE Spec2Model ----
(***************************************************************************)
(* Model of the typed decode engine of dbt-serde_yaml: decoding an         *)
(* in-memory Value (consuming: ValueDeserializer, borrowing:               *)
(* ValueRefDeserializer) into a target type, with the thread-local side    *)
(* channels (MARKER, SHOULD_TRANSFORM_ANY, EXPECTING_SHOULD_BE, WHY_NOT,   *)
(* IS_DESERIALIZING_VALUE, THE_VALUE, UNUSED_KEY_CALLBACK,                 *)
(* FIELD_TRANSFORMER), the field transformer, the unused-key callback,     *)
(* the ShouldBe error-recovery container and the Verbatim wrapper.         *)
(*                                                                         *)
(* One action is one top-level call; the recursive descent of the call is  *)
(* computed by the recursive operators below, which thread the record of   *)
(* thread-local cells through every step in program order.                 *)
(*                                                                         *)
(* Value::broadcast_end_mark, Value::untag and the tagged-value accessors  *)
(* are defined outside the modelled sources: tagged nodes are decoded into *)
(* enum targets only (deserialize_enum takes them apart itself), and the   *)
(* marker is written by set_marker / reset_marker only.                    *)
(***************************************************************************)
EXTENDS Integers, Sequences, FiniteSets, TLC

VARIABLES
    MARKER,                 \* spanned::MARKER: <<>> (None) or <<marker>>
    SHOULD_TRANSFORM_ANY,   \* verbatim::SHOULD_TRANSFORM_ANY
    EXPECTING_SHOULD_BE,    \* shouldbe::EXPECTING_SHOULD_BE
    WHY_NOT,                \* shouldbe::WHY_NOT: <<>> (None) or <<raw, err>>
    IS_DESERIALIZING_VALUE, \* value::de::IS_DESERIALIZING_VALUE
    THE_VALUE,              \* value::de::THE_VALUE: <<>> (None) or <<value>>
    UNUSED_KEY_CALLBACK,    \* value::de::UNUSED_KEY_CALLBACK is Some
    FIELD_TRANSFORMER,      \* value::de::FIELD_TRANSFORMER is Some
    pc,                     \* "idle": no call in progress; "returned": a call has just returned
    call                    \* the call that has just returned: its arguments and its outcome

vars == <<MARKER, SHOULD_TRANSFORM_ANY, EXPECTING_SHOULD_BE, WHY_NOT,
          IS_DESERIALIZING_VALUE, THE_VALUE, UNUSED_KEY_CALLBACK,
          FIELD_TRANSFORMER, pc, call>>

(***************************************************************************)
(* Bounds of the explored inputs.                                          *)
(***************************************************************************)
MaxSeqLen == 2      \* longest generated input sequence
MaxNum == 1         \* input numbers are 1..MaxNum

(***************************************************************************)
(* Data.  Every tree (a Value, a decoded target, an error) is a record of  *)
(* one shape, so that trees of different kinds can be compared.            *)
(*   k: kind, s/m: strings, n: integer, items/keys: children, sp: span     *)
(***************************************************************************)
Node(k, s, m, n, items, keys, sp) ==
    [k |-> k, s |-> s, m |-> m, n |-> n, items |-> items, keys |-> keys, sp |-> sp]

\* Marker { index, line, column }; Marker::zero() is the unset location and
\* Marker::start() the start of the source string
Marker(index, line, column) == [index |-> index, line |-> line, column |-> column]
Marker_zero == Marker(0, 0, 0)
Marker_start == Marker(0, 1, 1)
\* a Span is <<start, end>>
NoSpan == <<Marker_zero, Marker_zero>>  \* Span::default(): both markers zero
\* Span::is_valid
is_valid(sp) ==
    /\ sp[1].index <= sp[2].index
    /\ sp[1].line > 0 /\ sp[1].column > 0
    /\ sp[2].line > 0 /\ sp[2].column > 0
Nil == Node("Nil", "", "", 0, <<>>, <<>>, NoSpan)

\* Value variants (the explored inputs hold no Bool)
Null(sp) == Node("Null", "", "", 0, <<>>, <<>>, sp)
Number(n, sp) == Node("Number", "", "", n, <<>>, <<>>, sp)
String(s, sp) == Node("String", s, "", 0, <<>>, <<>>, sp)
Sequence(items, sp) == Node("Sequence", "", "", 0, items, <<>>, sp)
Mapping(keys, values, sp) == Node("Mapping", "", "", 0, values, keys, sp)
\* Tagged(TaggedValue { tag, value }): the tag string is the sigil (m: "!" or
\* nothing) followed by the name (s)
Tagged(sigil, name, value, sp) == Node("Tagged", name, sigil, 0, <<value>>, <<>>, sp)


\* Error: s = kind, m = message head, sp = attached span
Error(kind, msg, sp) == Node("Error", kind, msg, 0, <<>>, <<>>, sp)

\* decoded targets
D_i32(n) == Node("i32", "", "", n, <<>>, <<>>, NoSpan)
D_String(s) == Node("std::String", s, "", 0, <<>>, <<>>, NoSpan)
D_None == Node("None", "", "", 0, <<>>, <<>>, NoSpan)
D_Some(x) == Node("Some", "", "", 0, <<x>>, <<>>, NoSpan)
D_Vec(xs) == Node("Vec", "", "", 0, xs, <<>>, NoSpan)
D_HashMap(ks, xs) == Node("HashMap", "", "", 0, xs, ks, NoSpan)
D_Struct(xs) == Node("Struct", "", "", 0, xs, <<>>, NoSpan)
D_Newtype(x) == Node("Newtype", "", "", 0, <<x>>, <<>>, NoSpan)
D_IgnoredAny == Node("IgnoredAny", "", "", 0, <<>>, <<>>, NoSpan)
D_Variant(name) == Node("Variant", name, "", 0, <<>>, <<>>, NoSpan)
\* a newtype variant with its payload
D_VariantOf(name, x) == Node("Variant", name, "", 0, <<x>>, <<>>, NoSpan)
D_Unit == Node("()", "", "", 0, <<>>, <<>>, NoSpan)
AndIs(x) == Node("AndIs", "", "", 0, <<x>>, <<>>, NoSpan)
\* ButIsnt { raw, why_not: WhyNot::Original(err) }: items = raw (<<>> or <<value>>), keys = <<err>>
ButIsnt(raw, err) == Node("ButIsnt", "", "", 0, raw, <<err>>, NoSpan)
\* Verbatim { inner }: items = <<>> (missing) or <<value>>
Verbatim(inner) == Node("Verbatim", "", "", 0, inner, <<>>, NoSpan)
\* VerbatimLegacy(T)
VerbatimLegacy(x) == Node("VerbatimLegacy", "", "", 0, <<x>>, <<>>, NoSpan)

\* target types
Ty(t, of, names) == [t |-> t, of |-> of, names |-> names]
T_i32 == Ty("i32", <<>>, <<>>)
T_String == Ty("String", <<>>, <<>>)
T_Value == Ty("Value", <<>>, <<>>)
T_ValueVisitor == Ty("ValueVisitor", <<>>, <<>>)   \* ValueVisitor used as a DeserializeSeed
T_IgnoredAny == Ty("IgnoredAny", <<>>, <<>>)
T_Field(names) == Ty("Field", <<>>, names)          \* the derived field-identifier type of a struct
T_Option(x) == Ty("Option", <<x>>, <<>>)
T_Vec(x) == Ty("Vec", <<x>>, <<>>)
T_HashMap(x) == Ty("HashMap", <<x>>, <<>>)
\* HashMap<K, X> with keys that are no strings
T_HashMapOf(k, x) == Ty("HashMap", <<x, k>>, <<>>)
T_Newtype(x) == Ty("Newtype", <<x>>, <<>>)
T_ShouldBe(x) == Ty("ShouldBe", <<x>>, <<>>)
T_Verbatim(x) == Ty("Verbatim", <<x>>, <<>>)
T_VerbatimLegacy(x) == Ty("VerbatimLegacy", <<x>>, <<>>)
T_Spanned(x) == Ty("Spanned", <<x>>, <<>>)
T_Tuple(types) == Ty("Tuple", types, <<>>)
T_Struct(names, types) == Ty("Struct", types, names)
T_Enum(variants) == Ty("Enum", <<>>, variants)
T_Unit == Ty("()", <<>>, <<>>)
\* an enum whose variant i is a unit variant (payload T_Unit) or a newtype
\* variant of the payload type
T_EnumOf(variants, payloads) == Ty("Enum", payloads, variants)

\* Path as the list of its segments from the root
Root == <<>>
SegMap(key) == [seg |-> "Map", key |-> key, index |-> 0]
SegSeq(i) == [seg |-> "Seq", key |-> "", index |-> i]
SegUnknown == [seg |-> "Unknown", key |-> "", index |-> 0]


(***************************************************************************)
(* The thread-local cells as one record, threaded through a call, plus the *)
(* observation logs of the call: the unused-key callback invocations, the  *)
(* nodes offered to the field transformer, the keys the struct             *)
(* deserializers present to their visitors and the pools their catch-all   *)
(* fields are decoded from; pools is the stack of the vectors that the     *)
(* collect_unused closures of the running FlattenDeserializers push to.    *)
(***************************************************************************)
\* the initial value of every thread_local! cell
InitCells ==
    [MARKER |-> <<>>, SHOULD_TRANSFORM_ANY |-> TRUE, EXPECTING_SHOULD_BE |-> FALSE,
     WHY_NOT |-> <<>>, IS_DESERIALIZING_VALUE |-> FALSE, THE_VALUE |-> <<>>,
     UNUSED_KEY_CALLBACK |-> FALSE, FIELD_TRANSFORMER |-> FALSE]

Cells ==
    [MARKER |-> MARKER, SHOULD_TRANSFORM_ANY |-> SHOULD_TRANSFORM_ANY,
     EXPECTING_SHOULD_BE |-> EXPECTING_SHOULD_BE, WHY_NOT |-> WHY_NOT,
     IS_DESERIALIZING_VALUE |-> IS_DESERIALIZING_VALUE, THE_VALUE |-> THE_VALUE,
     UNUSED_KEY_CALLBACK |-> UNUSED_KEY_CALLBACK, FIELD_TRANSFORMER |-> FIELD_TRANSFORMER]

WithLogs(cells) ==
    [MARKER |-> cells.MARKER, SHOULD_TRANSFORM_ANY |-> cells.SHOULD_TRANSFORM_ANY,
     EXPECTING_SHOULD_BE |-> cells.EXPECTING_SHOULD_BE, WHY_NOT |-> cells.WHY_NOT,
     IS_DESERIALIZING_VALUE |-> cells.IS_DESERIALIZING_VALUE, THE_VALUE |-> cells.THE_VALUE,
     UNUSED_KEY_CALLBACK |-> cells.UNUSED_KEY_CALLBACK,
     FIELD_TRANSFORMER |-> cells.FIELD_TRANSFORMER,
     unused |-> <<>>, offered |-> <<>>, presented |-> <<>>, flattened |-> <<>>,
     pools |-> <<>>, attempts |-> <<>>, buffers |-> <<>>, pushed |-> <<>>,
     spans |-> <<>>]

\* Result<T, Error> together with the cells after the step.  ret marks an
\* error returned by a return statement from inside a macro argument.
Ok(val, st) == [ok |-> TRUE, val |-> val, err |-> Nil, st |-> st, ret |-> FALSE]
Err(e, st) == [ok |-> FALSE, val |-> Nil, err |-> e, st |-> st, ret |-> FALSE]
ErrReturn(e, st) == [ok |-> FALSE, val |-> Nil, err |-> e, st |-> st, ret |-> TRUE]

\* spanned::set_marker / reset_marker / get_marker
set_marker(marker, st) == [st EXCEPT !.MARKER = <<marker>>]
reset_marker(st) == [st EXCEPT !.MARKER = <<>>]
\* a span that takes the start of the source for a marker that is missing
SpanFrom_start(start, end) ==
    << IF start = <<>> THEN Marker_start ELSE start[1],
       IF end = <<>> THEN Marker_start ELSE end[1] >>

\* impl From<Range<Option<Marker>>> for Span: a missing marker is the zero marker
SpanFrom(start, end) ==
    << IF start = <<>> THEN Marker_zero ELSE start[1],
       IF end = <<>> THEN Marker_zero ELSE end[1] >>

\* Value::with_span
with_span(v, sp) == [v EXCEPT !.sp = sp]

\* Spanned { span, node }
Spanned(span, node) == Node("Spanned", "", "", 0, <<node>>, <<>>, span)

\* Span::from(start..get_marker()) after a decode that began at start: the
\* two markers read and the span made of them are kept for the record
spanning(start, st) ==
    [st EXCEPT !.spans = Append(@, [before |-> start, after |-> st.MARKER,
                                    sp |-> SpanFrom(start, st.MARKER)])]



\* crate::is_flatten_key: a dunder name such as __rest__
FlattenKeys == {"__rest__", "__more__"}
is_flatten_key(key) == key \in FlattenKeys

\* Error::custom(err.to_string()): only the text survives
Error_custom(e) == Error("custom", e.m, NoSpan)
\* error::set_span: attaches the span to an error that carries none
set_span(e, sp) == IF e.sp = NoSpan THEN [e EXCEPT !.sp = sp] ELSE e
\* impl From<Box<dyn Error>> for Error: the external kind wraps the caller's error
External(tr) == Error("external", tr, NoSpan)
FastPathError == Error("custom", "Value deserialized via fast path", NoSpan)
\* Unexpected of a Value (Value::unexpected) as the text of an invalid-type error
unexpected(v) ==
    CASE v.k = "Null" -> "invalid type: unit"
      [] v.k = "Number" -> "invalid type: integer"
      [] v.k = "String" -> "invalid type: string"
      [] v.k = "Sequence" -> "invalid type: sequence"
      [] v.k = "Tagged" -> "invalid type: enum"
      [] OTHER -> "invalid type: map"
\* Value::invalid_type: serde invalid_type with the span of the node itself
invalid_type(v) == set_span(Error("invalid_type", unexpected(v), NoSpan), v.sp)
\* the errors serde raises by itself
missing_field == Error("custom", "missing field <name>", NoSpan)
unknown_variant == Error("custom", "unknown variant", NoSpan)
\* tagged::nobang: the tag without its leading sigil
nobang(tagged) == tagged.s
\* Error::invalid_length(len, &expected)
invalid_length(len) == [Error("custom", "invalid length", NoSpan) EXCEPT !.n = len]
\* Visitor methods left at their serde default reject what they are handed
default_visit(what) == Error("invalid_type", what, NoSpan)

\* shouldbe::set_why_not / take_why_not / is_expecting_should_be_then_reset
set_why_not(raw, err, st) == [st EXCEPT !.WHY_NOT = <<raw, err>>]

(***************************************************************************)
(* The field transformers of the explored calls (caller-supplied closures):*)
(*   keep      Ok(None) for every node                                     *)
(*   add100    replaces a Number n by n + 100 (test_verbatim)              *)
(*   fail_str  fails on every String node (test_into_typed_external_err)   *)
(***************************************************************************)
Transformers == {"keep", "add100", "fail_str"}

transformer(tr, v) ==
    CASE tr = "add100" /\ v.k = "Number" -> [kind |-> "Some", v |-> Number(v.n + 100, NoSpan)]
      [] tr = "fail_str" /\ v.k = "String" -> [kind |-> "Err", v |-> Nil]
      [] OTHER -> [kind |-> "None", v |-> Nil]

\* A deserializer: which implementation, the node it stands on, its path,
\* the unused-key callback ("user" or "none"), the transformer ("absent"
\* when field_transformer is None) and the is_transformed flag.
Deserializer(impl, value, path, cb, tr, is_transformed) ==
    [impl |-> impl, value |-> value, path |-> path, cb |-> cb, tr |-> tr,
     is_transformed |-> is_transformed]

\* ValueDeserializer::new / new_with / new_with_transformed
ValueDeserializer_new(value) ==
    Deserializer("ValueDeserializer", value, Root, "none", "absent", FALSE)
ValueDeserializer_new_with(value, path, cb, tr) ==
    Deserializer("ValueDeserializer", value, path, cb, tr, FALSE)
ValueDeserializer_new_with_transformed(value, path, cb, tr) ==
    Deserializer("ValueDeserializer", value, path, cb, tr, TRUE)
\* ValueRefDeserializer::new / new_with / new_with_transformed
ValueRefDeserializer_new_with(value, path, cb, tr) ==
    Deserializer("ValueRefDeserializer", value, path, cb, tr, FALSE)
ValueRefDeserializer_new_with_transformed(value, path, cb, tr) ==
    Deserializer("ValueRefDeserializer", value, path, cb, tr, TRUE)
\* the deserializer of one child of de: the same implementation, new_with
\* MissingFieldDeserializer of serde (serde::__private::de::missing_field), handed to the type of an absent field
SerdeMissingField == Deserializer("SerdeMissingField", Nil, Root, "none", "absent", FALSE)
\* verbatim::MissingFieldDeserializer
MissingFieldDeserializer ==
    Deserializer("MissingFieldDeserializer", Nil, Root, "none", "absent", FALSE)

\* a transformer applied inside verbatim zones as well
should_apply_transformation_in_verbatim(de, st) == de.tr # "absent" /\ ~de.is_transformed

\* the condition under which a node is offered to the transformer
should_apply_transformation(de, st) ==
    /\ de.tr # "absent"
    /\ ~de.is_transformed
    /\ st.SHOULD_TRANSFORM_ANY

\* the Deserializer method that T::deserialize calls
Method(T) ==
    CASE T.t = "i32" -> "number"
      [] T.t = "String" -> "string"
      [] T.t = "Field" -> "identifier"
      [] T.t = "Option" -> "option"
      [] T.t = "Vec" -> "seq"
      [] T.t = "Tuple" -> "seq"
      [] T.t = "HashMap" -> "map"
      [] T.t = "Newtype" -> "newtype_struct"
      [] T.t = "Struct" -> "struct"
      [] T.t = "Enum" -> "enum"
      [] T.t = "()" -> "unit"
      [] T.t = "IgnoredAny" -> "ignored_any"
      [] OTHER -> "any"


(***************************************************************************)
(* Steps shared by both deserializers.                                     *)
(***************************************************************************)
\* the transformer is called on the node the deserializer stands on
Offer(de, st) == [st EXCEPT !.offered = Append(@, [path |-> de.path, v |-> de.value])]

\* ValueDeserializer::maybe_apply_transformation: the node is replaced in
\* place when the transformer answers Some(v); is_transformed is left as is
maybe_apply_transformation(de, st) ==
    IF should_apply_transformation(de, st)
    THEN LET out == transformer(de.tr, de.value)
         IN  CASE out.kind = "Err" -> [ok |-> FALSE, de |-> de, st |-> Offer(de, st)]
               [] out.kind = "Some" -> [ok |-> TRUE, de |-> [de EXCEPT !.value = out.v],
                                        st |-> Offer(de, st)]
               [] OTHER -> [ok |-> TRUE, de |-> de, st |-> Offer(de, st)]
    ELSE [ok |-> TRUE, de |-> de, st |-> st]

\* a fast path that leaves the node where it is
store_deserializer_state_nothing(value, de, st) == st

\* store_deserializer_state: the fast path hands the node and both closures
\* to the thread-local cells
store_deserializer_state(value, de, st) ==
    [st EXCEPT !.THE_VALUE = <<value>>,
               !.UNUSED_KEY_CALLBACK = (de.cb # "none"),
               !.FIELD_TRANSFORMER = (de.tr # "absent")]

\* is_deserializing_value_then_reset / reset_is_deserializing_value
reset_is_deserializing_value(st) == [st EXCEPT !.IS_DESERIALIZING_VALUE = FALSE]
\* is_expecting_should_be_then_reset: the flag is read and cleared
reset_expecting_should_be(st) == [st EXCEPT !.EXPECTING_SHOULD_BE = FALSE]

\* maybe_why_not!: is_expecting is the flag as it was read before res was
\* computed.  An error that left the method by a return inside the macro
\* argument never reaches the match.
maybe_why_not(value_ref, is_expecting, res) ==
    IF ~res.ok /\ is_expecting /\ ~res.ret
    THEN Err(Error_custom(res.err), set_why_not(value_ref, res.err, res.st))
    ELSE [res EXCEPT !.ret = FALSE]

\* .map_err(|e| error::set_span(e, span))
map_err_set_span(res, sp) ==
    IF res.ok \/ res.ret THEN res ELSE [res EXCEPT !.err = set_span(@, sp)]

(***************************************************************************)
(* Visitors.  V is the target type whose visitor is being driven.          *)
(***************************************************************************)
visit_unit(V, st) ==
    CASE V.t = "Option" -> Ok(D_None, st)
      [] V.t = "()" -> Ok(D_Unit, st)
      [] V.t = "ValueVisitor" -> Ok(Null(NoSpan), st)
      [] V.t = "IgnoredAny" -> Ok(D_IgnoredAny, st)
      [] OTHER -> Err(default_visit("invalid type: unit"), st)

visit_none(V, st) ==
    CASE V.t = "Option" -> Ok(D_None, st)
      [] V.t = "ValueVisitor" -> Ok(Null(NoSpan), st)
      [] OTHER -> Err(default_visit("invalid type: Option"), st)

\* Number::deserialize_any: visit_u64 / visit_i64 of the visitor
visit_number(V, n, st) ==
    CASE V.t = "i32" -> Ok(D_i32(n), st)
      [] V.t = "ValueVisitor" -> Ok(Number(n, NoSpan), st)
      [] V.t = "IgnoredAny" -> Ok(D_IgnoredAny, st)
      [] OTHER -> Err(default_visit("invalid type: integer"), st)

\* visit_string / visit_borrowed_str; an enum's variant identifier accepts
\* the names of its variants only
visit_string(V, s, st) ==
    CASE V.t = "String" -> Ok(D_String(s), st)
      [] V.t = "Field" -> Ok(D_String(s), st)
      [] V.t = "ValueVisitor" -> Ok(String(s, NoSpan), st)
      [] V.t = "IgnoredAny" -> Ok(D_IgnoredAny, st)
      [] OTHER -> Err(default_visit("invalid type: string"), st)

\* Value::deserialize_number
deserialize_number(v, V, st) ==
    LET is_expecting == st.EXPECTING_SHOULD_BE
        st1 == reset_expecting_should_be(reset_is_deserializing_value(st))
        res == IF v.k = "Number" THEN visit_number(V, v.n, st1)
                                 ELSE Err(invalid_type(v), st1)
    IN  maybe_why_not(v, is_expecting, map_err_set_span(res, v.sp))


(***************************************************************************)
(* The recursive descent.  Every operator takes the cells before the step  *)
(* and answers the Result with the cells after it.                         *)
(***************************************************************************)
\* let x = value; the value is computed once and named in what follows
Let(value, In(_)) == In(value)

RECURSIVE Deserialize(_, _, _)
RECURSIVE Dispatch(_, _, _, _)
RECURSIVE ValueDeserializer_deserialize(_, _, _, _)
RECURSIVE ValueRefDeserializer_deserialize(_, _, _, _)
RECURSIVE SeqDeserializer_visit_seq(_, _, _, _, _, _)
RECURSIVE MapDeserializer_visit_map(_, _, _, _, _, _)
RECURSIVE StructDeserializer_visit_map(_, _, _, _)
RECURSIVE next_key_seed(_, _)
RECURSIVE missing_fields(_, _, _, _)
RECURSIVE Untagged_deserialize(_, _, _)
RECURSIVE TupleVisitor_visit_seq(_, _, _, _, _, _)

\* a ShouldBe<T>::deserialize that hands the inner error on to its caller
ShouldBe_deserialize_Err_propagated(r) == Err(r.err, r.st)

\* ShouldBe<T>::deserialize, the Err arm: the last-failure slot is taken
ShouldBe_deserialize_Err(r) ==
    IF r.st.WHY_NOT # <<>>
    THEN Ok(ButIsnt(<<r.st.WHY_NOT[1]>>, r.st.WHY_NOT[2]), [r.st EXCEPT !.WHY_NOT = <<>>])
    ELSE Ok(ButIsnt(<<>>, Error_custom(r.err)), r.st)

\* impl Deserialize for ShouldBe<T>
ShouldBe_deserialize(T, de, st) ==
    Let(Deserialize(T, de, [st EXCEPT !.EXPECTING_SHOULD_BE = TRUE]),
        LAMBDA r : IF r.ok THEN Ok(AndIs(r.val), r.st) ELSE ShouldBe_deserialize_Err(r))

\* value::de::deserialize(deserializer, duplicate_key_callback); the
\* callback travels with a deserializer of parsed text
deserialize(de, st) ==
    Let(Dispatch(de, "any", T_ValueVisitor, [st EXCEPT !.IS_DESERIALIZING_VALUE = TRUE]),
        LAMBDA res :
            LET start == st.MARKER
                st2 == reset_is_deserializing_value(res.st)
            IN  IF st2.THE_VALUE # <<>>
                THEN Ok(st2.THE_VALUE[1], [st2 EXCEPT !.THE_VALUE = <<>>])
                ELSE IF res.ok
                     THEN Ok(with_span(res.val, SpanFrom(start, st2.MARKER)),
                             spanning(start, st2))
                     ELSE Err(res.err, st2))

\* impl DeserializeSeed for ValueVisitor
ValueVisitor_deserialize(de, st) ==
    Let(Dispatch(de, "any", T_ValueVisitor, st),
        LAMBDA res :
            IF res.ok
            THEN Ok(with_span(res.val, SpanFrom(st.MARKER, res.st.MARKER)),
                    spanning(st.MARKER, res.st))
            ELSE res)

\* impl Deserialize for Spanned<T>
Spanned_deserialize(T, de, st) ==
    Let(Deserialize(T, de, st),
        LAMBDA res :
            IF res.ok
            THEN Ok(Spanned(SpanFrom(st.MARKER, res.st.MARKER), res.val),
                    spanning(st.MARKER, res.st))
            ELSE res)

\* a Value whose plain decode keeps the later value of a repeated key
Value_deserialize_keeping_last(de, st) ==
    deserialize(IF de.impl = "Stream" THEN [de EXCEPT !.cb = "Last"] ELSE de, st)

\* impl Deserialize for Value: deserialize with |_, _, _| DuplicateKey::Error
Value_deserialize(de, st) ==
    deserialize(IF de.impl = "Stream" THEN [de EXCEPT !.cb = "Error"] ELSE de, st)

\* msg.starts_with("missing field ")
starts_with_missing_field(e) == e.m = "missing field <name>"

\* a guard that enables the flag when it is dropped, whatever it was
ShouldTransformAnyGuard_drop_enabling(current, st) == [st EXCEPT !.SHOULD_TRANSFORM_ANY = TRUE]

\* ShouldTransformAnyGuard::drop
ShouldTransformAnyGuard_drop(current, st) == [st EXCEPT !.SHOULD_TRANSFORM_ANY = current]

\* an absent field kept as missing whatever T makes of a missing field
accepts_missing_whatever_T(T, err, st) == Ok(Nil, st)

\* the test that lets an absent field stay in the wrapper as missing
accepts_missing(T, err, st) ==
    IF starts_with_missing_field(err)
    THEN Deserialize(T, MissingFieldDeserializer, st)
    ELSE Err(err, st)

\* impl Deserialize for Verbatim<T>
Verbatim_deserialize(T, de, st) ==
    Let(deserialize(de, [st EXCEPT !.SHOULD_TRANSFORM_ANY = FALSE]),
        LAMBDA maybe_value :
            LET current == st.SHOULD_TRANSFORM_ANY
            IN  IF maybe_value.ok
                THEN Ok(Verbatim(<<maybe_value.val>>),
                        ShouldTransformAnyGuard_drop(current, maybe_value.st))
                ELSE Let(accepts_missing(T, maybe_value.err, maybe_value.st),
                         LAMBDA probe :
                             IF probe.ok
                             THEN Ok(Verbatim(<<>>), ShouldTransformAnyGuard_drop(current, probe.st))
                             ELSE Err(maybe_value.err,
                                      ShouldTransformAnyGuard_drop(current, probe.st))))

\* with_should_not_transform_any: the flag is disabled for the scope
with_should_not_transform_any(st) == [st EXCEPT !.SHOULD_TRANSFORM_ANY = FALSE]

\* impl Deserialize for VerbatimLegacy<T>: T is decoded under the guard
VerbatimLegacy_deserialize(T, de, st) ==
    Let(Deserialize(T, de, with_should_not_transform_any(st)),
        LAMBDA r :
            LET current == st.SHOULD_TRANSFORM_ANY
            IN  IF r.ok
                THEN Ok(VerbatimLegacy(r.val), ShouldTransformAnyGuard_drop(current, r.st))
                ELSE Err(r.err, ShouldTransformAnyGuard_drop(current, r.st)))

\* T::deserialize(deserializer)
Deserialize(T, de, st) ==
    CASE T.t = "ShouldBe" -> ShouldBe_deserialize(T.of[1], de, st)
      [] T.t = "Verbatim" -> Verbatim_deserialize(T.of[1], de, st)
      [] T.t = "VerbatimLegacy" -> VerbatimLegacy_deserialize(T.of[1], de, st)
      [] T.t = "Value" -> Value_deserialize(de, st)
      [] T.t = "Untagged" -> Untagged_deserialize(T, de, st)
      [] T.t = "Spanned" -> Spanned_deserialize(T.of[1], de, st)
      [] T.t = "ValueVisitor" -> ValueVisitor_deserialize(de, st)
      [] OTHER -> Dispatch(de, Method(T), T, st)

\* visit_some of the visitor of V
visit_some(V, de, st) ==
    CASE V.t = "Option" ->
            Let(Deserialize(V.of[1], de, st),
                LAMBDA r : IF r.ok THEN Ok(D_Some(r.val), r.st) ELSE r)
      [] V.t = "ValueVisitor" -> Deserialize(T_Value, de, st)
      [] OTHER -> Err(default_visit("invalid type: Option"), st)

\* a newtype visitor that makes up a value when the inner decode fails
visit_newtype_struct_absorbing(V, de, st) == Ok(D_Newtype(Nil), st)

\* visit_newtype_struct of the visitor of V
visit_newtype_struct(V, de, st) ==
    CASE V.t = "Newtype" ->
            Let(Deserialize(V.of[1], de, st),
                LAMBDA r : IF r.ok THEN Ok(D_Newtype(r.val), r.st) ELSE r)
      [] OTHER -> Err(default_visit("invalid type: newtype struct"), st)

\* the deserializers handed to the children of a node: ValueDeserializer
\* below ValueDeserializer, ValueRefDeserializer below the borrowing ones
ChildImpl(de) ==
    IF de.impl \in {"ValueDeserializer", "FlattenDeserializer"}
    THEN "ValueDeserializer" ELSE "ValueRefDeserializer"

\* the payload type of variant i of the enum V (an enum declared by its
\* names alone has unit variants only)
PayloadOf(V, i) == IF V.of = <<>> THEN T_Unit ELSE V.of[i]

\* EnumDeserializer / EnumRefDeserializer: the tag, the value under the tag
\* (<<>> for a plain string) and the deserializer that made it
EnumDeserializer(tag, value, de) == [tag |-> tag, value |-> value, de |-> de]

\* VariantDeserializer::unit_variant: a value under the tag is read as ()
\* by a deserializer of its own (Value::unit_variant)
unit_variant(data, st) ==
    IF data.value = <<>> THEN Ok(D_Unit, st)
    ELSE Dispatch(Deserializer(ChildImpl(data.de), data.value[1], Root, "none", "absent", FALSE),
                  "unit", T_Unit, st)

\* a newtype variant that reads its payload from a plain string as well
newtype_variant_seed_of_nothing(P, data, st) == Ok(Nil, st)

\* VariantDeserializer::newtype_variant_seed: the value under the tag is
\* read by a deserializer made by new_with, at the path of the enum
newtype_variant_seed(P, data, st) ==
    IF data.value = <<>>
    THEN Err(Error("invalid_type", "invalid type: unit variant", NoSpan), st)
    ELSE Deserialize(P, Deserializer(ChildImpl(data.de), data.value[1], data.de.path,
                                     data.de.cb, data.de.tr, FALSE), st)

\* visit_enum of the visitor of a derived enum V: variant_seed reads the
\* tag through a StrDeserializer, then the variant reads its payload
visit_enum(V, data, st) ==
    CASE V.t = "Enum" ->
            IF \E i \in DOMAIN V.names : V.names[i] = data.tag
            THEN Let(CHOOSE i \in DOMAIN V.names : V.names[i] = data.tag,
                     LAMBDA i :
                         IF PayloadOf(V, i) = T_Unit
                         THEN Let(unit_variant(data, st),
                                  LAMBDA r : IF r.ok THEN Ok(D_Variant(data.tag), r.st) ELSE r)
                         ELSE Let(newtype_variant_seed(PayloadOf(V, i), data, st),
                                  LAMBDA r : IF r.ok THEN Ok(D_VariantOf(data.tag, r.val), r.st)
                                             ELSE r))
            ELSE Err(unknown_variant, st)
      [] OTHER -> Err(default_visit("invalid type: enum"), st)

\* seed.deserialize(key): impl Deserializer for Value / for &Value
KeyDeserializer(de, key) ==
    Deserializer(ChildImpl(de), key, Root, "none", "absent", FALSE)

\* SeqDeserializer / SeqRefDeserializer::next_element_seed, driven by a
\* visit_seq that reads every element (Vec<X>, SequenceVisitor)
SeqDeserializer_visit_seq(iter, current_idx, de, X, acc, st) ==
    IF current_idx > Len(iter)
    THEN Ok(D_Vec(acc), st)
    ELSE Let(Deserialize(X, Deserializer(ChildImpl(de), iter[current_idx],
                                         Append(de.path, SegSeq(current_idx - 1)),
                                         de.cb, de.tr, FALSE), st),
             LAMBDA r :
                 IF r.ok
                 THEN SeqDeserializer_visit_seq(iter, current_idx + 1, de, X,
                                                Append(acc, r.val), r.st)
                 ELSE r)

\* visit_seq of the visitor of a tuple: it asks for as many elements as the
\* tuple has, fails when the sequence ends before that and asks for no more
TupleVisitor_visit_seq(iter, current_idx, de, V, acc, st) ==
    IF current_idx > Len(V.of) THEN Ok(D_Vec(acc), st)
    ELSE IF current_idx > Len(iter) THEN Err(invalid_length(current_idx - 1), st)
    ELSE Let(Deserialize(V.of[current_idx],
                         Deserializer(ChildImpl(de), iter[current_idx],
                                      Append(de.path, SegSeq(current_idx - 1)),
                                      de.cb, de.tr, FALSE), st),
             LAMBDA r :
                 IF r.ok
                 THEN TupleVisitor_visit_seq(iter, current_idx + 1, de, V, Append(acc, r.val), r.st)
                 ELSE r)

\* let remaining = deserializer.iter.len(): elements the visitor left behind
\* are an invalid_length error with the length of the sequence
remaining_checked(sequence, V, r) ==
    IF ~r.ok \/ Len(sequence) <= Len(V.of) THEN r
    ELSE Err(invalid_length(Len(sequence)), r.st)

\* visit_sequence / visit_sequence_ref; the visitors of Vec and Value leave
\* no element behind
visit_sequence(sequence, de, V, st) ==
    CASE V.t = "Vec" -> SeqDeserializer_visit_seq(sequence, 1, de, V.of[1], <<>>, st)
      [] V.t = "Tuple" ->
            remaining_checked(sequence, V, TupleVisitor_visit_seq(sequence, 1, de, V, <<>>, st))
      [] V.t = "ValueVisitor" ->
            Let(SeqDeserializer_visit_seq(sequence, 1, de, T_ValueVisitor, <<>>, st),
                LAMBDA r : IF r.ok THEN Ok(Sequence(r.val.items, NoSpan), r.st) ELSE r)
      [] OTHER -> Err(default_visit("invalid type: sequence"), st)

\* a path that takes every key for a string
KeyPath_of_string(de, key) == Append(de.path, SegMap(key.s))

\* Path::Map { parent, key } under a string key, Path::Unknown otherwise
KeyPath(de, key) ==
    Append(de.path, IF key.k = "String" THEN SegMap(key.s) ELSE SegUnknown)

\* MapDeserializer / MapRefDeserializer::next_key_seed and next_value_seed,
\* driven by a visit_map that reads every entry; KX is <<key type, value type>>
MapDeserializer_visit_map(map, i, de, KX, acc, st) ==
    IF i > Len(map.keys)
    THEN Ok(D_HashMap(acc.keys, acc.items), st)
    ELSE Let(Deserialize(KX[1], KeyDeserializer(de, map.keys[i]), st),
             LAMBDA k :
                 IF ~k.ok THEN k
                 ELSE Let(Deserialize(KX[2], Deserializer(ChildImpl(de), map.items[i],
                                                          KeyPath(de, map.keys[i]),
                                                          de.cb, de.tr, FALSE), k.st),
                          LAMBDA r :
                              IF ~r.ok THEN r
                              ELSE MapDeserializer_visit_map(map, i + 1, de, KX,
                                       [keys |-> Append(acc.keys, k.val),
                                        items |-> Append(acc.items, r.val)], r.st)))

EmptyMapping == Mapping(<<>>, <<>>, NoSpan)

\* visit_mapping / visit_mapping_ref, and visit_map over a MapRefDeserializer
visit_mapping(mapping, de, V, st) ==
    CASE V.t = "HashMap" ->
            MapDeserializer_visit_map(mapping, 1, de,
                                      <<IF Len(V.of) = 2 THEN V.of[2] ELSE T_String, V.of[1]>>,
                                      [keys |-> <<>>, items |-> <<>>], st)
      [] V.t = "ValueVisitor" ->
            Let(MapDeserializer_visit_map(mapping, 1, de, <<T_ValueVisitor, T_ValueVisitor>>,
                                          [keys |-> <<>>, items |-> <<>>], st),
                LAMBDA r : IF r.ok THEN Ok(Mapping(r.val.keys, r.val.items, NoSpan), r.st) ELSE r)
      [] OTHER -> Err(default_visit("invalid type: map"), st)


(***************************************************************************)
(* StructDeserializer / StructRefDeserializer.  sd holds the fields of the *)
(* struct deserializer: the entries (map), the iterator position (i), the  *)
(* declared names, rest, flatten_keys_done, current_key and the            *)
(* deserializer it was made by (path and both closures).                   *)
(***************************************************************************)
SelectSeqOf(names, keep) ==
    LET F[i \in 0..Len(names)] ==
            IF i = 0 THEN <<>>
            ELSE IF keep[i] THEN Append(F[i - 1], names[i]) ELSE F[i - 1]
    IN  F[Len(names)]

\* StructDeserializer::new / StructRefDeserializer::new_with: known_keys is
\* partitioned into normal_keys and flatten_keys
StructDeserializer_new(map, de, known_keys) ==
    [map |-> map, i |-> 1, de |-> de, current_key |-> Nil,
     normal_keys |-> {known_keys[j] : j \in {x \in DOMAIN known_keys : ~is_flatten_key(known_keys[x])}},
     flatten_keys |-> SelectSeqOf(known_keys, [j \in DOMAIN known_keys |-> is_flatten_key(known_keys[j])]),
     rest |-> [keys |-> <<>>, items |-> <<>>], flatten_keys_done |-> 0]

has_flatten(sd) == sd.flatten_keys # <<>>
has_unprocessed_flatten_keys(sd) == sd.flatten_keys_done < Len(sd.flatten_keys)

rest_push(sd, key, value) ==
    [sd EXCEPT !.rest = [keys |-> Append(@.keys, key), items |-> Append(@.items, value)]]

\* collect_unused of a FlattenDeserializer: self.remaining.push((key, value))
collect_unused(key, value, st) ==
    IF st.pools = <<>> THEN st
    ELSE [st EXCEPT !.pools[Len(st.pools)] =
              [keys |-> Append(@.keys, key), items |-> Append(@.items, value)]]

\* the unused-key callback is called with the path of the key: the closure
\* of the caller, or the collect_unused of the FlattenDeserializer above
Unused(sd, key, value) ==
    [path |-> Append(sd.de.path, SegMap(key.s)), key |-> key, value |-> value]

\* collect_unused_keys of a derived untagged enum:
\* __unused_keys.push((path.to_owned_path(), key.clone(), value.clone()))
collect_unused_keys(unused, st) ==
    IF st.buffers = <<>> THEN st
    ELSE [st EXCEPT !.buffers[Len(st.buffers)] = Append(@, unused),
                    !.pushed = Append(@, unused)]

\* a call of the unused-key callback cb: nothing when there is none, the
\* closure of a FlattenDeserializer, the closure of a derived untagged enum
\* or the closure of the caller
call_callback(cb, unused, st) ==
    CASE cb = "none" -> st
      [] cb = "collect" -> collect_unused(unused.key, unused.value, st)
      [] cb = "buffer" -> collect_unused_keys(unused, st)
      [] OTHER -> [st EXCEPT !.unused = Append(@, unused)]

callback(sd, key, value, st) == call_callback(sd.de.cb, Unused(sd, key, value), st)

(***************************************************************************)
(* #[derive(UntaggedEnumDeserialize)]: the generated Deserialize of an     *)
(* untagged enum.  T.names is the name of the enum followed by the names   *)
(* of its variants, T.of the payload types of the variants.                *)
(***************************************************************************)
\* value::extract_reusable_deserializer_state: the node, the path and the
\* two closures of the deserializer, kept for one attempt after the other
extract_reusable_deserializer_state(de) ==
    [value |-> de.value, path |-> de.path, cb |-> de.cb, tr |-> de.tr]
take_unused_key_callback(state) == state.cb
get_deserializer(state, cb) ==
    Deserializer("ValueDeserializer", state.value, state.path, cb, state.tr, FALSE)

\* let mut __unused_keys = vec![] / __unused_keys.clear()
unused_keys_new(st) == [st EXCEPT !.buffers = Append(@, <<>>)]
unused_keys_clear(st) == [st EXCEPT !.buffers[Len(st.buffers)] = <<>>]
unused_keys(st) == st.buffers[Len(st.buffers)]
unused_keys_dropped(st) == [st EXCEPT !.buffers = SubSeq(@, 1, Len(@) - 1)]

\* an attempt that starts from the keys of the attempts before it
gen_deserialize_block_keeping(T, i, state, st) ==
    Deserialize(T.of[i], get_deserializer(state, "buffer"), st)

\* Variant::gen_deserialize_block: the buffer is cleared and the payload of
\* variant i is decoded with collect_unused_keys as the unused-key callback
gen_deserialize_block(T, i, state, st) ==
    Deserialize(T.of[i], get_deserializer(state, "buffer"), unused_keys_clear(st))

\* what an attempt did: seen are the keys its decode reported as unused
attempted(T, i, state, st, r) ==
    [r.st EXCEPT !.attempts =
         Append(@, [path |-> state.path, variant |-> i, ok |-> r.ok,
                    seen |-> SubSeq(r.st.pushed, Len(st.pushed) + 1, Len(r.st.pushed))])]

\* for (path, key, value) in __unused_keys.iter() { __callback(path, key, value) }
replayed(cb, keys, st) ==
    LET F[n \in 0..Len(keys)] == IF n = 0 THEN st ELSE call_callback(cb, keys[n], F[n - 1])
    IN  F[Len(keys)]

\* Variant::gen_constructor_block: on success the buffered keys go to the
\* callback the deserializer came with and the variant is returned
gen_constructor_block(T, i, state, r, st) ==
    Ok(D_VariantOf(T.names[i + 1], r.val),
       replayed(take_unused_key_callback(state), unused_keys(st), unused_keys_dropped(st)))

err_message(T) == "data did not match any variant of untagged enum " \o T.names[1]

\* #( #variant_blocks )* Err(custom(err_message)): the variants from i on
RECURSIVE variant_blocks(_, _, _, _)
variant_blocks(T, i, state, st) ==
    IF i > Len(T.of)
    THEN Err(Error("custom", err_message(T), NoSpan), unused_keys_dropped(st))
    ELSE Let(gen_deserialize_block(T, i, state, st),
             LAMBDA r : IF r.ok
                        THEN gen_constructor_block(T, i, state, r, attempted(T, i, state, st, r))
                        ELSE variant_blocks(T, i + 1, state, attempted(T, i, state, st, r)))

\* EnumDef::gen_deserialize_impl: fn deserialize of the enum
Untagged_deserialize(T, de, st) ==
    variant_blocks(T, 1, extract_reusable_deserializer_state(de), unused_keys_new(st))

\* the keys that never reach the visitor: dunder keys go to rest, unknown
\* keys go to rest under a catch-all and to the callback otherwise
is_set_aside(sd, key) ==
    /\ key.k = "String"
    /\ \/ is_flatten_key(key.s)
       \/ key.s \notin sd.normal_keys /\ (has_flatten(sd) \/ sd.de.cb # "none")

\* StructDeserializer::next_key_seed up to the key it hands to the visitor:
\* "entry" (a source entry), "flatten" (a declared catch-all) or "end"
next_key_seed(sd, st) ==
    IF sd.i <= Len(sd.map.keys)
    THEN LET key == sd.map.keys[sd.i]
             value == sd.map.items[sd.i]
             nxt == [sd EXCEPT !.i = @ + 1, !.current_key = Nil]
         IN  IF is_set_aside(sd, key)
             THEN IF is_flatten_key(key.s) \/ has_flatten(sd)
                  THEN next_key_seed(rest_push(nxt, key, value), st)
                  ELSE next_key_seed(nxt, callback(sd, key, value, st))
             ELSE [kind |-> "entry", key |-> key, value |-> value, st |-> st,
                   sd |-> [nxt EXCEPT !.current_key = IF key.k = "String" THEN key ELSE Nil]]
    ELSE IF has_unprocessed_flatten_keys(sd)
         THEN LET key == String(sd.flatten_keys[sd.flatten_keys_done + 1], NoSpan)
              IN  [kind |-> "flatten", key |-> key, value |-> Nil, st |-> st,
                   sd |-> [sd EXCEPT !.current_key = key]]
         ELSE [kind |-> "end", key |-> Nil, value |-> Nil, st |-> st, sd |-> sd]

\* the deserializer of the key handed to the visitor: ValueDeserializer::new
\* (owned, and the catch-all names of both), ValueRefDeserializer::new
key_deserializer(sd, nk) ==
    IF nk.kind = "flatten" THEN ValueDeserializer_new(nk.key)
    ELSE Deserializer(ChildImpl(sd.de), nk.key, Root, "none", "absent", FALSE)

\* a catch-all that is not the last one declared: after flatten_keys_done
\* += 1 there are catch-all keys left
is_not_last(sd, nk) ==
    nk.kind = "flatten" /\ sd.flatten_keys_done + 1 < Len(sd.flatten_keys)

\* StructDeserializer::next_value_seed: the deserializer handed to the seed.
\* A catch-all that is not the last reads rest through a FlattenDeserializer
\* whose remaining is the emptied rest.  The last catch-all reads what is in
\* rest: a ValueDeserializer over a new mapping (owned), a MapRefDeserializer
\* over the entries (borrowed).
value_deserializer(sd, nk) ==
    LET path == Append(sd.de.path,
                       IF sd.current_key = Nil THEN SegUnknown ELSE SegMap(sd.current_key.s))
    IN  IF nk.kind = "entry"
        THEN Deserializer(ChildImpl(sd.de), nk.value, path, sd.de.cb, sd.de.tr, FALSE)
        ELSE IF is_not_last(sd, nk)
        THEN Deserializer(IF sd.de.impl = "ValueDeserializer" THEN "FlattenDeserializer"
                          ELSE "FlattenRefDeserializer",
                          Mapping(sd.rest.keys, sd.rest.items, NoSpan), path, "none", sd.de.tr, FALSE)
        ELSE IF sd.de.impl = "ValueDeserializer"
             THEN ValueDeserializer_new_with(Mapping(sd.rest.keys, sd.rest.items, NoSpan),
                                             path, sd.de.cb, sd.de.tr)
             ELSE Deserializer("MapRefDeserializer", Mapping(sd.rest.keys, sd.rest.items, NoSpan),
                               path, sd.de.cb, sd.de.tr, FALSE)

EmptyPool == [keys |-> <<>>, items |-> <<>>]

\* the cells as the seed of a value starts: the pool a catch-all is decoded
\* from is noted, and a FlattenDeserializer gets the drained rest as the
\* vector its collect_unused pushes to
before_value(sd, nk, st) ==
    LET logged == IF nk.kind = "flatten"
                  THEN [st EXCEPT !.flattened =
                            Append(@, [phase |-> "handed", path |-> sd.de.path, key |-> nk.key.s,
                                       last |-> ~is_not_last(sd, nk), pool |-> sd.rest])]
                  ELSE st
    IN  IF is_not_last(sd, nk) THEN [logged EXCEPT !.pools = Append(@, EmptyPool)] ELSE logged

\* what the FlattenDeserializer of the seed that has returned left in rest
returned_pool(sd, nk, st) ==
    IF is_not_last(sd, nk) /\ st.pools # <<>> THEN st.pools[Len(st.pools)] ELSE EmptyPool

\* the cells after the seed of a value has returned: the FlattenDeserializer
\* is gone, what it pushed is in rest
after_value_cells(sd, nk, st) ==
    IF is_not_last(sd, nk) /\ st.pools # <<>>
    THEN [st EXCEPT !.pools = SubSeq(@, 1, Len(@) - 1),
                    !.flattened =
                        Append(@, [phase |-> "returned", path |-> sd.de.path, key |-> nk.key.s,
                                   last |-> FALSE, pool |-> returned_pool(sd, nk, st)])]
    ELSE st

after_value(sd, nk, st) ==
    IF nk.kind = "entry" THEN sd
    ELSE [sd EXCEPT !.flatten_keys_done = @ + 1, !.rest = returned_pool(sd, nk, st)]

FieldIndex(V, name) ==
    IF \E j \in DOMAIN V.names : V.names[j] = name
    THEN CHOOSE j \in DOMAIN V.names : V.names[j] = name
    ELSE 0


duplicate_field == Error("custom", "duplicate field", NoSpan)

\* the cells once next_key_seed has answered: what it presents is noted
presents(nk) ==
    [nk.st EXCEPT !.presented = Append(@, [path |-> nk.sd.de.path, kind |-> nk.kind,
                                           key |-> nk.key, rest |-> nk.sd.rest])]

\* the visit_map of a derived struct visitor, up to the end of its loop over
\* next_key / next_value: a known key fills its field, any other key is read
\* as IgnoredAny.  Answers the result so far and the struct deserializer.
StructDeserializer_visit_map(V, sd, got, st) ==
    Let(next_key_seed(sd, st),
        LAMBDA nk :
            IF nk.kind = "end" THEN [r |-> Ok(D_Struct(got), presents(nk)), sd |-> nk.sd]
            ELSE Let(Deserialize(T_Field(V.names), key_deserializer(nk.sd, nk), presents(nk)),
                     LAMBDA k :
                         IF ~k.ok THEN [r |-> k, sd |-> nk.sd]
                         ELSE Let(FieldIndex(V, k.val.s),
                                  LAMBDA idx :
                                      IF idx # 0 /\ got[idx] # Nil
                                      THEN [r |-> Err(duplicate_field, k.st), sd |-> nk.sd]
                                      ELSE Let(Deserialize(IF idx = 0 THEN T_IgnoredAny
                                                           ELSE V.of[idx],
                                                           value_deserializer(nk.sd, nk),
                                                           before_value(nk.sd, nk, k.st)),
                                               LAMBDA r :
                                                   IF ~r.ok
                                                   THEN [r |-> [r EXCEPT !.st = after_value_cells(nk.sd, nk, @)],
                                                         sd |-> nk.sd]
                                                   ELSE StructDeserializer_visit_map(
                                                            V, after_value(nk.sd, nk, r.st),
                                                            IF idx = 0 THEN got
                                                            ELSE [got EXCEPT ![idx] = r.val],
                                                            after_value_cells(nk.sd, nk, r.st))))))

\* the end of the derived visit_map: every field not seen is read from the
\* MissingFieldDeserializer of serde, in declaration order
missing_fields(V, got, j, st) ==
    IF j > Len(got) THEN Ok(D_Struct(got), st)
    ELSE IF got[j] # Nil THEN missing_fields(V, got, j + 1, st)
    ELSE Let(Deserialize(V.of[j], SerdeMissingField, st),
             LAMBDA r :
                 IF r.ok THEN missing_fields(V, [got EXCEPT ![j] = r.val], j + 1, r.st) ELSE r)

\* visitor.visit_map(struct deserializer) of a derived struct
derived_visit_map(V, sd, st) ==
    Let(StructDeserializer_visit_map(V, sd, [j \in DOMAIN V.names |-> Nil], st),
        LAMBDA out :
            [r |-> IF out.r.ok THEN missing_fields(V, out.r.val.items, 1, out.r.st) ELSE out.r,
             sd |-> out.sd])

\* visit_struct / visit_struct_ref: entries left in the iterator or in rest
\* are an invalid_length error
visit_struct(mapping, de, V, st) ==
    IF V.t # "Struct" THEN Err(default_visit("invalid type: map"), st)
    ELSE Let(derived_visit_map(V, StructDeserializer_new(mapping, de, V.names), st),
             LAMBDA out :
                 LET remaining == (Len(mapping.keys) + 1 - out.sd.i) + Len(out.sd.rest.keys)
                 IN  IF ~out.r.ok THEN out.r
                     ELSE IF remaining = 0 THEN out.r
                     ELSE Err(invalid_length(Len(mapping.keys)), out.r.st))

\* visitor.visit_map(&mut MapRefDeserializer::new_empty(path)): a map access
\* without entries, and without the catch-all keys of a struct deserializer
visit_map_new_empty(de, V, st) ==
    IF V.t = "Struct"
    THEN missing_fields(V, [j \in DOMAIN V.names |-> Nil], 1, st)
    ELSE visit_mapping(EmptyMapping, de, V, st)

\* impl Deserializer for MapRefDeserializer
MapRefDeserializer_deserialize(de, method, V, st) ==
    CASE method = "struct" ->
            IF V.t = "Struct"
            THEN derived_visit_map(V, StructDeserializer_new(de.value, de, V.names), st).r
            ELSE Err(default_visit("invalid type: map"), st)
      [] method = "ignored_any" -> visit_unit(V, st)
      [] OTHER -> visit_mapping(de.value, de, V, reset_is_deserializing_value(st))

\* impl Deserializer for FlattenDeserializer / FlattenRefDeserializer: the
\* struct or map deserializer it builds reports unused keys to collect_unused
FlattenDeserializer_deserialize(de, method, V, st) ==
    LET inner == Deserializer(ChildImpl(de), de.value, de.path, "collect", de.tr, FALSE)
    IN  CASE method = "struct" ->
                IF V.t = "Struct"
                THEN derived_visit_map(V, StructDeserializer_new(de.value, inner, V.names), st).r
                ELSE Err(default_visit("invalid type: map"), st)
          [] method = "ignored_any" -> visit_unit(V, st)
          [] OTHER -> visit_mapping(de.value, inner, V, reset_is_deserializing_value(st))

\* impl Deserializer for verbatim::MissingFieldDeserializer
MissingFieldDeserializer_deserialize(method, V, st) ==
    IF method = "option" THEN visit_none(V, st)
    ELSE Err(Error("custom", "missing field", NoSpan), st)

\* serde::__private::de::missing_field: Option reads None, all else fails
SerdeMissingField_deserialize(method, V, st) ==
    IF method = "option" THEN visit_none(V, st) ELSE Err(missing_field, st)


(***************************************************************************)
(* impl Deserializer for ValueDeserializer (consuming) and for             *)
(* ValueRefDeserializer (borrowing).  "identifier" is deserialize_string   *)
(* in both; "number" stands for the integer and float methods.             *)
(***************************************************************************)
\* the match on the node of each method, the same in both deserializers up
\* to the deserializers of the children (ChildImpl)
method_match(de, method, V, st) ==
    LET v == de.value
    IN  CASE method = "any" ->
                CASE v.k = "Null" -> visit_unit(V, st)
                  [] v.k = "Number" -> visit_number(V, v.n, st)
                  [] v.k = "String" -> visit_string(V, v.s, st)
                  [] v.k = "Sequence" -> visit_sequence(v.items, de, V, st)
                  [] OTHER -> visit_mapping(v, de, V, st)
          [] method \in {"string", "identifier"} ->
                IF v.k = "String" THEN visit_string(V, v.s, st) ELSE Err(invalid_type(v), st)
          [] method = "option" ->
                IF v.k = "Null" THEN visit_unit(V, st)
                ELSE visit_some(V, [de EXCEPT !.is_transformed = TRUE], st)
          [] method = "seq" ->
                CASE v.k = "Sequence" -> visit_sequence(v.items, de, V, st)
                  [] v.k = "Null" -> visit_sequence(<<>>, de, V, st)
                  [] OTHER -> Err(invalid_type(v), st)
          [] method = "enum" ->
                IF v.k = "Tagged"
                THEN visit_enum(V, EnumDeserializer(nobang(v), <<v.items[1]>>, de), st)
                ELSE IF v.k = "String" THEN visit_enum(V, EnumDeserializer(v.s, <<>>, de), st)
                ELSE IF de.impl = "ValueDeserializer"
                     THEN ErrReturn(Error("invalid_type", unexpected(v), NoSpan), st)
                     ELSE ErrReturn(set_span(Error("invalid_type", unexpected(v), NoSpan), v.sp), st)
          [] method = "unit" ->
                IF v.k = "Null" THEN visit_unit(V, st) ELSE Err(invalid_type(v), st)
          [] OTHER -> visit_unit(V, st)      \* "ignored_any"

\* the methods whose Null arm differs between the two deserializers
ValueDeserializer_match(de, method, V, st) ==
    LET v == de.value
    IN  CASE method = "newtype_struct" -> visit_newtype_struct(V, de, st)
          [] method = "map" ->
                CASE v.k = "Mapping" -> visit_mapping(v, de, V, st)
                  [] v.k = "Null" -> visit_mapping(EmptyMapping, de, V, st)
                  [] OTHER -> Err(invalid_type(v), st)
          [] method = "struct" ->
                CASE v.k = "Mapping" -> visit_struct(v, de, V, st)
                  [] v.k = "Null" -> visit_struct(EmptyMapping, de, V, st)
                  [] OTHER -> Err(invalid_type(v), st)
          [] OTHER -> method_match(de, method, V, st)

ValueRefDeserializer_match(de, method, V, st) ==
    LET v == de.value
    IN  CASE method = "newtype_struct" ->
                visit_newtype_struct(V, [de EXCEPT !.is_transformed = TRUE], st)
          [] method = "map" ->
                CASE v.k = "Mapping" -> visit_mapping(v, de, V, st)
                  [] v.k = "Null" -> visit_map_new_empty(de, V, st)
                  [] OTHER -> Err(invalid_type(v), st)
          [] method = "struct" ->
                CASE v.k = "Mapping" -> visit_struct(v, de, V, st)
                  [] v.k = "Null" -> visit_map_new_empty(de, V, st)
                  [] OTHER -> Err(invalid_type(v), st)
          [] OTHER -> method_match(de, method, V, st)

\* a ValueRefDeserializer method after the transformer has been asked
ValueRefDeserializer_core(de, method, V, st) ==
    IF method = "number" THEN deserialize_number(de.value, V, st)
    ELSE IF method = "any" /\ st.IS_DESERIALIZING_VALUE
    THEN Err(FastPathError,
             store_deserializer_state(de.value, de, reset_is_deserializing_value(st)))
    ELSE maybe_why_not(de.value, st.EXPECTING_SHOULD_BE,
             map_err_set_span(
                 ValueRefDeserializer_match(de, method, V, reset_expecting_should_be(st)),
                 de.value.sp))

\* maybe_transform_and_forward_to_value_deserializer!, then the method
ValueRefDeserializer_deserialize(de, method, V, st) ==
    IF method # "ignored_any" /\ should_apply_transformation(de, st)
    THEN LET out == transformer(de.tr, de.value)
         IN  CASE out.kind = "Err" -> Err(External(de.tr), Offer(de, st))
               [] out.kind = "Some" ->
                    ValueDeserializer_deserialize(
                        ValueDeserializer_new_with_transformed(out.v, de.path, de.cb, de.tr),
                        method, V, Offer(de, st))
               [] OTHER -> ValueRefDeserializer_core(de, method, V, Offer(de, st))
    ELSE ValueRefDeserializer_core(de, method, V, st)

\* maybe_expecting_should_be!: the method is run by a ValueRefDeserializer on
\* the same node, and its failure is left in the last-failure slot
maybe_expecting_should_be(de, method, V, st) ==
    Let(ValueRefDeserializer_deserialize(
            ValueRefDeserializer_new_with_transformed(de.value, de.path, de.cb, de.tr),
            method, V, st),
        LAMBDA res :
            IF res.ok THEN res
            ELSE Err(Error_custom(res.err), set_why_not(de.value, res.err, res.st)))

\* a ValueDeserializer method after maybe_apply_transformation
ValueDeserializer_core(de, method, V, st) ==
    IF method = "number" THEN deserialize_number(de.value, V, st)
    ELSE IF st.EXPECTING_SHOULD_BE
    THEN maybe_expecting_should_be(de, method, V, reset_expecting_should_be(st))
    ELSE IF method = "any" /\ st.IS_DESERIALIZING_VALUE
    THEN Err(FastPathError,
             store_deserializer_state(de.value, de, reset_is_deserializing_value(st)))
    ELSE [map_err_set_span(ValueDeserializer_match(de, method, V, st), de.value.sp)
             EXCEPT !.ret = FALSE]

ValueDeserializer_deserialize(de, method, V, st) ==
    LET t == IF method = "ignored_any"
             THEN [ok |-> TRUE, de |-> de, st |-> st]
             ELSE maybe_apply_transformation(de, st)
    IN  IF t.ok THEN ValueDeserializer_core(t.de, method, V, t.st)
        ELSE Err(External(de.tr), t.st)

(***************************************************************************)
(* Decoding a Value from text.  The event parser (crate::de::Deserializer) *)
(* and the MappingVisitor are outside the modelled sources: a document is  *)
(* the tree of its nodes, each with the pair <<begin, after>> of the       *)
(* positions the parser is at before the node's first event and after its  *)
(* last one, and the parser announces its position through set_marker as   *)
(* it hands out events.  The deserializer of a node carries the path and   *)
(* the duplicate-key callback of the visitor that reads it (in cb).        *)
(***************************************************************************)
StreamDeserializer(node, path, duplicate_key_callback) ==
    Deserializer("Stream", node, path, duplicate_key_callback, "absent", FALSE)

\* the position after the start event of a collection: the first child's begin
after_start(children, st) ==
    IF children = <<>> THEN st ELSE set_marker(children[1].sp[1], st)

RECURSIVE SequenceVisitor_visit_seq(_, _, _, _, _)
\* SequenceVisitor::visit_seq: every element is read by a ValueVisitor seed
\* with the same callback, at Path::Seq { parent, index }
SequenceVisitor_visit_seq(seq, idx, de, values, st) ==
    IF idx > Len(seq) THEN Ok(Sequence(values, NoSpan), st)
    ELSE Let(ValueVisitor_deserialize(
                 StreamDeserializer(seq[idx], Append(de.path, SegSeq(idx - 1)), de.cb), st),
             LAMBDA r :
                 IF r.ok THEN SequenceVisitor_visit_seq(seq, idx + 1, de, Append(values, r.val), r.st)
                 ELSE r)

\* the error of the Error decision: it names the path of the repeated key
duplicate_entry(path) == [Error("custom", "duplicate entry with key", NoSpan) EXCEPT !.keys = path]

\* the place of an equal key among the keys read so far, or 0
KeyIndex(keys, key) ==
    IF \E j \in DOMAIN keys : [keys[j] EXCEPT !.sp = NoSpan] = [key EXCEPT !.sp = NoSpan]
    THEN CHOOSE j \in DOMAIN keys : [keys[j] EXCEPT !.sp = NoSpan] = [key EXCEPT !.sp = NoSpan]
    ELSE 0

\* what a MappingVisitor does with an entry it has read: a new key is
\* appended; for a repeated key the callback decides
\* (DuplicateKey::Error, First or Last)
insert_entry(mapping, key, value, path, duplicate_key_callback, st) ==
    LET j == KeyIndex(mapping.keys, key)
    IN  CASE j = 0 -> Ok([mapping EXCEPT !.keys = Append(@, key), !.items = Append(@, value)], st)
          [] duplicate_key_callback = "Error" -> Err(duplicate_entry(path), st)
          [] duplicate_key_callback = "First" -> Ok(mapping, st)
          [] OTHER -> Ok([mapping EXCEPT !.items[j] = value], st)

RECURSIVE MappingVisitor_visit_map(_, _, _, _, _)
\* MappingVisitor::visit_map: keys and values are read by ValueVisitor seeds
\* with the same callback, the value at Path::Map { parent, key }
MappingVisitor_visit_map(map, i, de, mapping, st) ==
    IF i > Len(map.keys) THEN Ok(mapping, st)
    ELSE Let(ValueVisitor_deserialize(StreamDeserializer(map.keys[i], de.path, de.cb), st),
             LAMBDA k :
                 IF ~k.ok THEN k
                 ELSE Let(ValueVisitor_deserialize(
                              StreamDeserializer(map.items[i], KeyPath(de, k.val), de.cb), k.st),
                          LAMBDA r :
                              IF ~r.ok THEN r
                              ELSE Let(insert_entry(mapping, k.val, r.val, KeyPath(de, k.val),
                                                    de.cb, r.st),
                                       LAMBDA m :
                                           IF ~m.ok THEN m
                                           ELSE MappingVisitor_visit_map(map, i + 1, de,
                                                                         m.val, m.st))))

\* ValueVisitor::visit_seq: the SequenceVisitor gets the callback and the path
ValueVisitor_visit_seq(de, st) == SequenceVisitor_visit_seq(de.value.items, 1, de, <<>>, st)

\* a ValueVisitor that hands the MappingVisitor the path of the root
ValueVisitor_visit_map_at_root(de, st) ==
    MappingVisitor_visit_map(de.value, 1, [de EXCEPT !.path = Root], EmptyMapping, st)

\* ValueVisitor::visit_map: the MappingVisitor gets the callback and the path
ValueVisitor_visit_map(de, st) == MappingVisitor_visit_map(de.value, 1, de, EmptyMapping, st)

\* the end event of a collection: the parser is after the node
after_end(de, res) == IF res.ok THEN [res EXCEPT !.st = set_marker(de.value.sp[2], @)] ELSE res

\* crate::de::Deserializer::deserialize_any driving a ValueVisitor
Stream_deserialize(de, method, V, st) ==
    LET v == de.value
    IN  CASE v.k = "Null" -> visit_unit(V, set_marker(v.sp[2], st))
          [] v.k = "Number" -> visit_number(V, v.n, set_marker(v.sp[2], st))
          [] v.k = "String" -> visit_string(V, v.s, set_marker(v.sp[2], st))
          [] v.k = "Sequence" -> after_end(de, ValueVisitor_visit_seq(de, after_start(v.items, st)))
          [] OTHER -> after_end(de, ValueVisitor_visit_map(de, after_start(v.keys, st)))

\* an entry point that forgets to announce the start of the source
from_str_without_start(s, duplicate_key_callback, st) ==
    Let(deserialize(StreamDeserializer(s, Root, duplicate_key_callback), st),
        LAMBDA res : [res EXCEPT !.st = reset_marker(@)])

\* Value::from_str / from_reader / from_slice
from_str(s, duplicate_key_callback, st) ==
    Let(deserialize(StreamDeserializer(s, Root, duplicate_key_callback),
                    set_marker(Marker_start, st)),
        LAMBDA res : [res EXCEPT !.st = reset_marker(@)])

\* deserializer.deserialize_<method>(visitor of V)
Dispatch(de, method, V, st) ==
    CASE de.impl = "ValueDeserializer" -> ValueDeserializer_deserialize(de, method, V, st)
      [] de.impl = "ValueRefDeserializer" -> ValueRefDeserializer_deserialize(de, method, V, st)
      [] de.impl = "MapRefDeserializer" -> MapRefDeserializer_deserialize(de, method, V, st)
      [] de.impl = "Stream" -> Stream_deserialize(de, method, V, st)
      [] de.impl \in {"FlattenDeserializer", "FlattenRefDeserializer"} ->
            FlattenDeserializer_deserialize(de, method, V, st)
      [] de.impl = "SerdeMissingField" -> SerdeMissingField_deserialize(method, V, st)
      [] OTHER -> MissingFieldDeserializer_deserialize(method, V, st)


(***************************************************************************)
(* The explored inputs: Values as a parser leaves them (every node with a  *)
(* span), the target types, and the calls.                                 *)
(***************************************************************************)
SrcSpan == <<Marker(1, 1, 2), Marker(2, 1, 3)>>
Num(n) == Number(n, SrcSpan)
Str(x) == String(x, SrcSpan)
Map1(k1, v1) == Mapping(<<k1>>, <<v1>>, SrcSpan)
Map2(k1, v1, k2, v2) == Mapping(<<k1, k2>>, <<v1, v2>>, SrcSpan)

Numbers == {Num(n) : n \in 1..MaxNum}
Scalars == Numbers \cup {Str("a"), Null(SrcSpan)}
SeqsOf(S, n) == UNION {[1..m -> S] : m \in 0..n}
Sequences == {Sequence(items, SrcSpan) : items \in SeqsOf(Numbers, MaxSeqLen)}
FieldValues == Numbers \cup {Str("a")}
Mappings ==
    {Mapping(<<>>, <<>>, SrcSpan)}
    \cup {Map1(Str("a"), x) : x \in FieldValues}
    \cup {Map1(Str("y"), w) : w \in {Num(1), Null(SrcSpan)}}
    \cup {Map2(Str("a"), Num(1), Str("b"), w) :
              w \in {Sequence(<<Num(1)>>, SrcSpan), Num(1)}}
    \cup {Map2(Str("a"), x, Str("e"), w) : x \in FieldValues, w \in {Num(1), Str("a")}}
    \cup {Map2(Str("a"), Num(1), k, Num(1)) : k \in {Str("u"), Num(1), Str("__rest__")}}
Values == Scalars \cup Sequences \cup Mappings

\* tagged nodes, with and without the sigil
TaggedValues ==
    {Tagged("!", "n", Num(1), SrcSpan), Tagged("", "n", Num(1), SrcSpan),
     Tagged("!", "n", Str("a"), SrcSpan), Tagged("!", "a", Null(SrcSpan), SrcSpan),
     Tagged("!", "a", Num(1), SrcSpan), Tagged("!", "u", Num(1), SrcSpan)}

E == T_Enum(<<"a">>)
\* enum { a, n(i32) }
E_an == T_EnumOf(<<"a", "n">>, <<T_Unit, T_i32>>)
S_ab == T_Struct(<<"a", "b">>, <<T_i32, T_Verbatim(T_Value)>>)
S_ae == T_Struct(<<"a", "e">>, <<T_ShouldBe(T_i32), T_ShouldBe(E)>>)
S_rest == T_Struct(<<"a", "__rest__">>, <<T_Option(T_i32), T_HashMap(T_Value)>>)
S_y == T_Struct(<<"y">>, <<T_Verbatim(T_i32)>>)
S_yo == T_Struct(<<"y">>, <<T_Verbatim(T_Option(T_i32))>>)
Types ==
    {T_i32, T_Value, E_an, T_Newtype(T_i32), T_ShouldBe(T_i32), T_ShouldBe(T_Value), T_ShouldBe(E),
     T_Vec(T_ShouldBe(T_i32)), S_ab, S_ae, S_rest, S_y, S_yo}

\* the documents explored by from_str, every node with the positions
\* <<begin, after>> of the parser around it
At(node, begin, after) == [node EXCEPT !.sp = <<begin, after>>]
\* "x: 1\nK: 2\n"-like text with the second key K (test_value_span)
Doc_x(K) ==
    At(Mapping(<<At(Str("x"), Marker(0, 1, 1), Marker(3, 1, 4)),
                 At(Str(K), Marker(7, 2, 1), Marker(10, 2, 4))>>,
               <<At(Number(1, NoSpan), Marker(3, 1, 4), Marker(7, 2, 1)),
                 At(Number(2, NoSpan), Marker(10, 2, 4), Marker(14, 3, 1))>>, NoSpan),
       Marker(0, 1, 1), Marker(14, 3, 1))
\* the same mapping two columns in, as the value of a key or an element
Inner_x(K) ==
    At(Mapping(<<At(Str("x"), Marker(2, 1, 3), Marker(5, 1, 6)),
                 At(Str(K), Marker(9, 2, 3), Marker(12, 2, 6))>>,
               <<At(Number(1, NoSpan), Marker(5, 1, 6), Marker(9, 2, 3)),
                 At(Number(2, NoSpan), Marker(12, 2, 6), Marker(16, 3, 1))>>, NoSpan),
       Marker(2, 1, 3), Marker(16, 3, 1))
Documents ==
    {At(Number(1, NoSpan), Marker(0, 1, 1), Marker(2, 2, 1)),
     At(Sequence(<<>>, NoSpan), Marker(0, 1, 1), Marker(3, 2, 1))}
    \cup {Doc_x(K) : K \in {"x", "y"}}
    \cup {At(Sequence(<<Inner_x(K)>>, NoSpan), Marker(0, 1, 1), Marker(16, 3, 1)) : K \in {"x", "y"}}
    \cup {At(Mapping(<<At(Str("a"), Marker(0, 1, 1), Marker(2, 1, 3))>>, <<Inner_x(K)>>, NoSpan),
             Marker(0, 1, 1), Marker(16, 3, 1)) : K \in {"x", "y"}}
\* the decisions of the explored duplicate-key callbacks
DuplicateKeyCallbacks == {"Error", "First", "Last"}

(***************************************************************************)
(* Merge keys.  Value::apply_merge is outside the modelled sources (only   *)
(* its test is there); it is modelled from its specified algorithm: the    *)
(* merge entry is removed, then every source mapping, in the order listed, *)
(* adds the keys the mapping does not have yet, depth-first over the tree. *)
(***************************************************************************)
is_merge_key(key) == key.k = "String" /\ key.s = "<<"

\* the index of the merge entry of a mapping, or 0
MergeIndex(mapping) ==
    IF \E j \in DOMAIN mapping.keys : is_merge_key(mapping.keys[j])
    THEN CHOOSE j \in DOMAIN mapping.keys : is_merge_key(mapping.keys[j])
    ELSE 0

\* the mappings a merge value names: one mapping or a sequence of them
merge_sources(value) == IF value.k = "Sequence" THEN value.items ELSE <<value>>

\* an insertion that replaces the value the mapping already has for the key
or_insert_overwriting(mapping, key, value) ==
    IF KeyIndex(mapping.keys, key) = 0
    THEN [mapping EXCEPT !.keys = Append(@, key), !.items = Append(@, value)]
    ELSE [mapping EXCEPT !.items[KeyIndex(mapping.keys, key)] = value]

\* mapping.entry(key).or_insert(value)
or_insert(mapping, key, value) ==
    IF KeyIndex(mapping.keys, key) = 0
    THEN [mapping EXCEPT !.keys = Append(@, key), !.items = Append(@, value)]
    ELSE mapping

RECURSIVE merge_one(_, _, _)
\* the entries of one source, from entry i on, added to the mapping
merge_one(mapping, source, i) ==
    IF i > Len(source.keys) THEN mapping
    ELSE merge_one(or_insert(mapping, source.keys[i], source.items[i]), source, i + 1)

RECURSIVE merge_all(_, _, _)
\* the sources from source s on, in the order listed
merge_all(mapping, sources, s) ==
    IF s > Len(sources) THEN mapping
    ELSE merge_all(merge_one(mapping, sources[s], 1), sources, s + 1)

\* the mapping without its entry j
without_entry(mapping, j) ==
    [mapping EXCEPT !.keys = SelectSeqOf(@, [i \in DOMAIN @ |-> i # j]),
                    !.items = SelectSeqOf(@, [i \in DOMAIN @ |-> i # j])]

scalar_in_merge == Error("custom", "expected a mapping or list of mappings for merging", NoSpan)

RECURSIVE apply_merge(_, _)
RECURSIVE apply_merge_each(_, _, _, _)
\* the nodes of items from node i on, each with its merge keys expanded
apply_merge_each(items, i, done, st) ==
    IF i > Len(items) THEN Ok(done, st)
    ELSE Let(apply_merge(items[i], st),
             LAMBDA r : IF r.ok THEN apply_merge_each(items, i + 1, Append(done, r.val), r.st)
                        ELSE r)

\* Value::apply_merge
apply_merge(value, st) ==
    CASE value.k = "Mapping" ->
            LET j == MergeIndex(value)
                sources == IF j = 0 THEN <<>> ELSE merge_sources(value.items[j])
                merged == IF j = 0 THEN value ELSE merge_all(without_entry(value, j), sources, 1)
            IN  IF \E s \in DOMAIN sources : sources[s].k # "Mapping"
                THEN Err(scalar_in_merge, st)
                ELSE Let(apply_merge_each(merged.items, 1, <<>>, st),
                         LAMBDA r : IF r.ok THEN Ok([merged EXCEPT !.items = r.val], r.st) ELSE r)
      [] value.k = "Sequence" ->
            Let(apply_merge_each(value.items, 1, <<>>, st),
                LAMBDA r : IF r.ok THEN Ok([value EXCEPT !.items = r.val], r.st) ELSE r)
      [] OTHER -> Ok(value, st)

\* the mappings and the entries of test_merge
Key(x) == String(x, NoSpan)
Whole(n) == Number(n, NoSpan)
CENTER == Mapping(<<Key("x"), Key("y")>>, <<Whole(1), Whole(2)>>, NoSpan)
LEFT == Mapping(<<Key("x"), Key("y")>>, <<Whole(0), Whole(2)>>, NoSpan)
BIG == Mapping(<<Key("r")>>, <<Whole(10)>>, NoSpan)
SMALL == Mapping(<<Key("r")>>, <<Whole(1)>>, NoSpan)
MergeSources == {CENTER, LEFT, BIG, SMALL}
Explicit == Mapping(<<Key("x"), Key("y"), Key("r"), Key("label")>>,
                    <<Whole(1), Whole(2), Whole(10), Key("center/big")>>, NoSpan)
\* the longest list of merge sources explored
MaxSources == 2
\* a mapping with the merge entry first, then explicit entries and a label
Merging(merge, keys, items) ==
    Mapping(<<Key("<<")>> \o keys \o <<Key("label")>>,
            <<merge>> \o items \o <<Key("center/big")>>, NoSpan)
MergeValues ==
    MergeSources \cup {Whole(1)}
    \cup {Sequence(items, NoSpan) : items \in SeqsOf(MergeSources, MaxSources)}
    \cup {Sequence(<<CENTER, Whole(1)>>, NoSpan)}
MergeInputs ==
    {Merging(merge, <<>>, <<>>) : merge \in MergeValues}
    \cup {Merging(merge, <<Key("x")>>, <<Whole(1)>>) : merge \in MergeValues}
    \cup {Merging(merge, <<Key("r")>>, <<Whole(10)>>) : merge \in MergeValues}
    \cup {Sequence(<<Explicit,
                     Merging(CENTER, <<Key("r")>>, <<Whole(10)>>),
                     Merging(Sequence(<<CENTER, BIG>>, NoSpan), <<>>, <<>>),
                     Merging(Sequence(<<BIG, LEFT, SMALL>>, NoSpan), <<Key("x")>>, <<Whole(1)>>)>>,
                   NoSpan),
          Explicit}

(***************************************************************************)
(* impl Display for Path.  A rendering is the sequence of the pieces the   *)
(* formatter writes: ".", a key, "[", the digits of an index, "]", "?".    *)
(***************************************************************************)
SegAlias == [seg |-> "Alias", key |-> "", index |-> 0]

\* the decimal text of a small index
IndexText(index) == <<"0", "1", "2", "3", "4", "5", "6", "7", "8", "9">>[index + 1]

RECURSIVE Display(_)
\* a Parent that writes the separator after the root as well
Parent_of_root_dotted(path) == Display(path) \o <<".">>

\* struct Parent: nothing for the root, the path and "." otherwise
Parent(path) == IF path = Root THEN <<>> ELSE Display(path) \o <<".">>

\* impl Display for Path
Display(path) ==
    IF path = Root THEN <<".">>
    ELSE LET parent == SubSeq(path, 1, Len(path) - 1)
             last == path[Len(path)]
         IN  CASE last.seg = "Seq" -> Display(parent) \o <<"[", IndexText(last.index), "]">>
               [] last.seg = "Map" -> Parent(parent) \o <<last.key>>
               [] last.seg = "Alias" -> Display(parent)
               [] OTHER -> Parent(parent) \o <<"?">>

\* the longest path explored, and the segments it is made of
MaxPathLen == 3
Segments == {SegMap("a"), SegMap("b"), SegSeq(0), SegSeq(2), SegAlias, SegUnknown}
\* root -> a -> b -> index 2 -> c
Path_a_b_2_c == <<SegMap("a"), SegMap("b"), SegSeq(2), SegMap("c")>>
Paths == SeqsOf(Segments, MaxPathLen) \cup {Path_a_b_2_c}

\* the inputs explored for the target type T
Inputs(T) == IF T.t = "Enum" THEN Values \cup TaggedValues ELSE Values

NoCall == [op |-> "none"]

Returned(op, v, T, tr, r) ==
    [op |-> op, v |-> v, T |-> T, tr |-> tr, pre |-> Cells,
     ok |-> r.ok, val |-> r.val, err |-> r.err,
     unused |-> r.st.unused, offered |-> r.st.offered,
     presented |-> r.st.presented, flattened |-> r.st.flattened,
     attempts |-> r.st.attempts, spans |-> r.st.spans]

SetCells(c) ==
    /\ MARKER' = c.MARKER
    /\ SHOULD_TRANSFORM_ANY' = c.SHOULD_TRANSFORM_ANY
    /\ EXPECTING_SHOULD_BE' = c.EXPECTING_SHOULD_BE
    /\ WHY_NOT' = c.WHY_NOT
    /\ IS_DESERIALIZING_VALUE' = c.IS_DESERIALIZING_VALUE
    /\ THE_VALUE' = c.THE_VALUE
    /\ UNUSED_KEY_CALLBACK' = c.UNUSED_KEY_CALLBACK
    /\ FIELD_TRANSFORMER' = c.FIELD_TRANSFORMER

\* the call itself: T::deserialize(de) on the cells as they are
into_typed(v, T, tr) ==
    Deserialize(T, ValueDeserializer_new_with(v, Root, "user", tr), WithLogs(Cells))
to_typed(v, T, tr) ==
    Deserialize(T, ValueRefDeserializer_new_with(v, Root, "user", tr), WithLogs(Cells))
\* Verbatim::into_typed / to_typed of a wrapper whose inner is None
Verbatim_into_typed_missing(T) ==
    Deserialize(T, MissingFieldDeserializer, WithLogs(Cells))

\* every thread-local cell starts at the value of its thread_local! block
Init ==
    /\ MARKER = <<>>
    /\ SHOULD_TRANSFORM_ANY = TRUE
    /\ EXPECTING_SHOULD_BE = FALSE
    /\ WHY_NOT = <<>>
    /\ IS_DESERIALIZING_VALUE = FALSE
    /\ THE_VALUE = <<>>
    /\ UNUSED_KEY_CALLBACK = FALSE
    /\ FIELD_TRANSFORMER = FALSE
    /\ pc = "idle"
    /\ call = NoCall

\* the call returns r: the cells are as the call left them
Return(op, v, T, tr, r) ==
    /\ SetCells(r.st)
    /\ call' = Returned(op, v, T, tr, r)
    /\ pc' = "returned"

\* Value::into_typed(unused_key_callback, field_transformer)
IntoTyped(v, T, tr) ==
    /\ pc = "idle"
    /\ Return("into_typed", v, T, tr, into_typed(v, T, tr))

\* Value::to_typed(unused_key_callback, field_transformer)
ToTyped(v, T, tr) ==
    /\ pc = "idle"
    /\ Return("to_typed", v, T, tr, to_typed(v, T, tr))

\* Verbatim::into_typed / to_typed on a wrapper in the missing state
VerbatimIntoTyped(T) ==
    /\ pc = "idle"
    /\ Return("verbatim_into_typed", Nil, T, "absent", Verbatim_into_typed_missing(T))

\* Value::from_str(s, duplicate_key_callback); the record of the call keeps
\* the callback where the other calls keep their transformer
FromStr(s, duplicate_key_callback) ==
    /\ pc = "idle"
    /\ Return("from_str", s, T_Value, duplicate_key_callback,
              from_str(s, duplicate_key_callback, WithLogs(Cells)))

\* from_str::<Value>(s): Value's plain Deserialize over the parser of s
PlainFromStr(s) ==
    /\ pc = "idle"
    /\ Return("from_str", s, T_Value, "plain",
              Let(Deserialize(T_Value, StreamDeserializer(s, Root, "none"),
                              set_marker(Marker_start, WithLogs(Cells))),
                  LAMBDA res : [res EXCEPT !.st = reset_marker(@)]))

\* value.apply_merge(); the result holds the value as the call leaves it
ApplyMerge(value) ==
    /\ pc = "idle"
    /\ Return("apply_merge", value, T_Value, "absent", apply_merge(value, WithLogs(Cells)))

\* the caller takes the result; the thread goes on to its next call
Forget ==
    /\ pc = "returned"
    /\ pc' = "idle"
    /\ call' = NoCall
    /\ UNCHANGED <<MARKER, SHOULD_TRANSFORM_ANY, EXPECTING_SHOULD_BE, WHY_NOT,
                   IS_DESERIALIZING_VALUE, THE_VALUE, UNUSED_KEY_CALLBACK, FIELD_TRANSFORMER>>

Next ==
    \/ \E T \in Types, tr \in Transformers : \E v \in Inputs(T) : IntoTyped(v, T, tr)
    \/ \E T \in Types, tr \in Transformers : \E v \in Inputs(T) : ToTyped(v, T, tr)
    \/ \E T \in Types : VerbatimIntoTyped(T)
    \/ \E s \in Documents, cb \in DuplicateKeyCallbacks : FromStr(s, cb)
    \/ \E s \in Documents : PlainFromStr(s)
    \/ \E value \in MergeInputs : ApplyMerge(value)
    \/ Forget

Spec == Init /\ [][Next]_vars

\* a thread that decodes targets with verbatim zones only
S_vb == T_Struct(<<"a", "b">>, <<T_Verbatim(T_Value), T_i32>>)
VerbatimTypes ==
    {T_Verbatim(T_i32), T_Verbatim(T_Value), T_VerbatimLegacy(T_i32),
     T_VerbatimLegacy(T_VerbatimLegacy(T_i32)), T_VerbatimLegacy(S_vb), S_vb, S_y}

VerbatimNext ==
    \/ \E T \in VerbatimTypes, tr \in Transformers : \E v \in Inputs(T) : IntoTyped(v, T, tr)
    \/ \E T \in VerbatimTypes, tr \in Transformers : \E v \in Inputs(T) : ToTyped(v, T, tr)
    \/ \E T \in VerbatimTypes : VerbatimIntoTyped(T)
    \/ Forget

VerbatimSpec == Init /\ [][VerbatimNext]_vars

\* a thread that decodes structs with catch-all fields, and tuples
N_n == T_Struct(<<"n">>, <<T_i32>>)
F_p == T_Struct(<<"p">>, <<N_n>>)
\* struct { a: i32, __more__: F_p, __rest__: HashMap<String, Value> }
S_more_rest == T_Struct(<<"a", "__more__", "__rest__">>, <<T_i32, F_p, T_HashMap(T_Value)>>)
\* struct { a: i32, __more__: HashMap<String, Value>, __rest__: HashMap<String, Value> }
S_maps == T_Struct(<<"a", "__more__", "__rest__">>,
                   <<T_i32, T_HashMap(T_Value), T_HashMap(T_Value)>>)
FlattenTypes == {S_more_rest, S_maps, S_rest, S_ab, T_Tuple(<<T_i32>>), T_Tuple(<<T_i32, T_i32>>)}
Map3(k1, v1, k2, v2, k3, v3) == Mapping(<<k1, k2, k3>>, <<v1, v2, v3>>, SrcSpan)
NestedValues == {Map1(Str("n"), Num(1)), Map2(Str("n"), Num(1), Str("z"), Num(1)), Num(1)}
FlattenValues ==
    {Map3(Str("a"), Num(1), Str("p"), w, Str("q"), Num(1)) : w \in NestedValues}
    \cup {Map3(Str("q"), Num(1), Str("a"), Num(1), Str("p"), w) : w \in NestedValues}
    \cup {Map2(Str("p"), w, Str("a"), Num(1)) : w \in NestedValues}
    \cup {Map3(Str("a"), Num(1), Str("__rest__"), Num(1), Str("p"), w) : w \in NestedValues}
FlattenInputs == Mappings \cup Sequences \cup {Num(1)} \cup FlattenValues

FlattenNext ==
    \/ \E T \in FlattenTypes, tr \in Transformers : \E v \in FlattenInputs : IntoTyped(v, T, tr)
    \/ \E T \in FlattenTypes, tr \in Transformers : \E v \in FlattenInputs : ToTyped(v, T, tr)
    \/ Forget

FlattenSpec == Init /\ [][FlattenNext]_vars

\* a thread that decodes derived untagged enums only
T_Untagged(name, variants, types) == Ty("Untagged", types, <<name>> \o variants)
S_a_b == T_Struct(<<"a", "b">>, <<T_i32, T_i32>>)
S_a == T_Struct(<<"a">>, <<T_i32>>)
\* #[serde(untagged)] enum U { Both(S_a_b), One(S_a), Num(i32) }
U_structs == T_Untagged("U", <<"Both", "One", "Num">>, <<S_a_b, S_a, T_i32>>)
\* #[serde(untagged)] enum W { One(S_a), Both(S_a_b) }
W_structs == T_Untagged("W", <<"One", "Both">>, <<S_a, S_a_b>>)
\* struct { a: U }
S_of_U == T_Struct(<<"a">>, <<U_structs>>)
UntaggedTypes == {U_structs, W_structs, S_of_U}
UntaggedValues ==
    {Map2(Str("a"), Num(1), Str("z"), Num(1)), Map2(Str("z"), Num(1), Str("a"), Num(1)),
     Map3(Str("y"), Num(1), Str("a"), Num(1), Str("z"), Num(1)),
     Map3(Str("a"), Num(1), Str("z"), Num(1), Str("b"), Num(1)),
     Map1(Str("a"), Map2(Str("a"), Num(1), Str("z"), Num(1)))}
UntaggedInputs == Values \cup UntaggedValues

UntaggedNext ==
    \/ \E T \in UntaggedTypes, tr \in Transformers : \E v \in UntaggedInputs : IntoTyped(v, T, tr)
    \/ \E T \in UntaggedTypes, tr \in Transformers : \E v \in UntaggedInputs : ToTyped(v, T, tr)
    \/ Forget

UntaggedSpec == Init /\ [][UntaggedNext]_vars

\* a thread that parses documents and decodes Spanned targets
SpannedTypes ==
    {T_Spanned(T_i32), T_Spanned(T_Value), T_Spanned(T_Spanned(T_i32)),
     T_Struct(<<"a">>, <<T_Spanned(T_i32)>>), T_Option(T_Spanned(T_Value))}

SpannedNext ==
    \/ \E s \in Documents, duplicate_key_callback \in DuplicateKeyCallbacks :
           FromStr(s, duplicate_key_callback)
    \/ \E s \in Documents : PlainFromStr(s)
    \/ \E T \in SpannedTypes, tr \in Transformers : \E v \in Values : IntoTyped(v, T, tr)
    \/ \E T \in SpannedTypes, tr \in Transformers : \E v \in Values : ToTyped(v, T, tr)
    \/ Forget

SpannedSpec == Init /\ [][SpannedNext]_vars

\* a thread that decodes sequences and mappings element by element
ElementTypes ==
    {T_Vec(T_i32), T_Vec(T_Vec(T_i32)), T_Tuple(<<T_i32, T_i32>>),
     T_HashMap(T_i32), T_HashMapOf(T_i32, T_i32), T_HashMap(T_Vec(T_i32))}
ElementValues ==
    {Sequence(<<x, y>>, SrcSpan) : x, y \in Sequences}
    \cup {Map2(Num(1), x, Str("a"), y) : x, y \in Numbers}
    \cup {Map2(Num(2), x, Num(1), y) : x, y \in Numbers}
    \cup {Map2(Str("b"), x, Str("a"), y) : x, y \in Sequences}
ElementInputs == Values \cup ElementValues

ElementNext ==
    \/ \E T \in ElementTypes, tr \in Transformers : \E v \in ElementInputs : IntoTyped(v, T, tr)
    \/ \E T \in ElementTypes, tr \in Transformers : \E v \in ElementInputs : ToTyped(v, T, tr)
    \/ Forget

ElementSpec == Init /\ [][ElementNext]_vars

(***************************************************************************)
(* The comparisons of ShouldBe<T>, for T = i32.  An Option is <<>> or      *)
(* <<x>>, an Ordering is "Less", "Equal" or "Greater".                     *)
(***************************************************************************)
MaxInner == 2       \* the values of T are 1..MaxInner
Ordering(a, b) == IF a < b THEN "Less" ELSE IF a > b THEN "Greater" ELSE "Equal"

\* Value == Value and Value::partial_cmp, on scalars: numbers by their
\* value, other scalars when they are equal
Value_eq(a, b) == [a EXCEPT !.sp = NoSpan] = [b EXCEPT !.sp = NoSpan]
Value_partial_cmp(a, b) ==
    IF a.k = "Number" /\ b.k = "Number" THEN <<Ordering(a.n, b.n)>>
    ELSE IF Value_eq(a, b) THEN <<"Equal">> ELSE <<>>

\* Option<Value> == and partial_cmp: None is less than Some
Option_eq(a, b) == Len(a) = Len(b) /\ (a # <<>> => Value_eq(a[1], b[1]))
Option_partial_cmp(a, b) ==
    IF a = <<>> \/ b = <<>> THEN <<Ordering(Len(a), Len(b))>>
    ELSE Value_partial_cmp(a[1], b[1])

\* impl PartialEq for ShouldBe<T>
ShouldBe_eq(a, b) ==
    CASE a.k = "AndIs" /\ b.k = "AndIs" -> a.items[1].n = b.items[1].n
      [] a.k = "ButIsnt" /\ b.k = "ButIsnt" -> Option_eq(a.items, b.items)
      [] OTHER -> FALSE

\* impl PartialOrd for ShouldBe<T>
ShouldBe_partial_cmp(a, b) ==
    CASE a.k = "AndIs" /\ b.k = "AndIs" -> <<Ordering(a.items[1].n, b.items[1].n)>>
      [] a.k = "ButIsnt" /\ b.k = "ButIsnt" -> Option_partial_cmp(a.items, b.items)
      [] OTHER -> <<>>

\* impl Ord for ShouldBe<T>
ShouldBe_cmp(a, b) ==
    CASE a.k = "AndIs" /\ b.k = "AndIs" -> Ordering(a.items[1].n, b.items[1].n)
      [] OTHER -> "Equal"

ShouldBes ==
    {AndIs(D_i32(n)) : n \in 1..MaxInner}
    \cup {ButIsnt(raw, why_not) :
              raw \in {<<>>} \cup {<<v>> : v \in {Num(1), Num(2), Str("a"), Null(SrcSpan)}},
              why_not \in {Error("custom", "invalid type", NoSpan),
                           Error("custom", "missing field <name>", NoSpan)}}

\* a == b, a.partial_cmp(&b) and a.cmp(&b) for two wrappers
Compare(a, b) ==
    /\ pc = "idle"
    /\ pc' = "returned"
    /\ call' = [op |-> "compare", a |-> a, b |-> b, eq |-> ShouldBe_eq(a, b),
                partial_cmp |-> ShouldBe_partial_cmp(a, b), cmp |-> ShouldBe_cmp(a, b)]
    /\ UNCHANGED <<MARKER, SHOULD_TRANSFORM_ANY, EXPECTING_SHOULD_BE, WHY_NOT,
                   IS_DESERIALIZING_VALUE, THE_VALUE, UNUSED_KEY_CALLBACK, FIELD_TRANSFORMER>>

CompareNext ==
    \/ \E a, b \in ShouldBes : Compare(a, b)
    \/ Forget

CompareSpec == Init /\ [][CompareNext]_vars

\* path.to_string(): the call keeps the path in the keys of its input and
\* the pieces written in the items of its result
Fmt(path) ==
    /\ pc = "idle"
    /\ Return("fmt", Node("Path", "", "", 0, <<>>, path, NoSpan), T_Value, "absent",
              Ok(Node("Text", "", "", 0, Display(path), <<>>, NoSpan), WithLogs(Cells)))

\* the renderings of the explored paths, one after the other
PathNext ==
    \/ \E path \in Paths : Fmt(path)
    \/ Forget

PathSpec == Init /\ [][PathNext]_vars


(***************************************************************************)
(* Properties.  A returned call is replayed from the cells it started     *)
(* from (call.pre) where a property compares it with another decode.       *)
(***************************************************************************)
\* the deserializer a top-level call hands to T::deserialize
TopDeserializer(op, v, tr) ==
    CASE op = "into_typed" -> ValueDeserializer_new_with(v, Root, "user", tr)
      [] op = "to_typed" -> ValueRefDeserializer_new_with(v, Root, "user", tr)
      [] OTHER -> MissingFieldDeserializer

\* T::deserialize over the deserializer of op, from the given cells
Decode(op, v, T, tr, cells) == Deserialize(T, TopDeserializer(op, v, tr), WithLogs(cells))

RECURSIVE StripSpans(_)
\* a value with every span dropped and, as PartialEq for ShouldBe compares
\* them, ButIsnt without its reason
StripSpans(x) ==
    [x EXCEPT !.sp = NoSpan,
              !.items = [i \in DOMAIN x.items |-> StripSpans(x.items[i])],
              !.keys = IF x.k = "ButIsnt" THEN <<>>
                       ELSE [i \in DOMAIN x.keys |-> StripSpans(x.keys[i])]]

Returned_from_Value == pc = "returned" /\ call.op \in {"into_typed", "to_typed"}

\* C1: decoding into ShouldBe<T> never fails, whatever the deserializer and
\* the input: the result is AndIs(v) when the inner decode of T succeeds
\* with v and ButIsnt when the inner decode of T fails.
C1_ShouldBeNeverFails ==
    (pc = "returned" /\ call.T.t = "ShouldBe") =>
        LET inner == Deserialize(call.T.of[1], TopDeserializer(call.op, call.v, call.tr),
                                 [WithLogs(call.pre) EXCEPT !.EXPECTING_SHOULD_BE = TRUE])
        IN  /\ call.ok
            /\ inner.ok => call.val = AndIs(inner.val)
            /\ ~inner.ok => call.val.k = "ButIsnt"

\* a ShouldBe<T> decode whose inner decode failed, on a Value deserializer
C1_Witness == Returned_from_Value /\ call.T.t = "ShouldBe" /\ call.ok /\ call.val.k = "ButIsnt"

\* C2: when a struct is decoded from a Value (into_typed or to_typed) and
\* the subtree at a ShouldBe<T> field fails to decode as T, the struct still
\* decodes, the field is ButIsnt, its raw value equals the original subtree
\* of the field and its reason is the original error of the inner decode.
C2_ButIsntKeepsRawAndReason ==
    (Returned_from_Value /\ call.T.t = "Struct" /\ call.v.k = "Mapping") =>
        \A i \in DOMAIN call.v.keys, j \in DOMAIN call.T.names :
            LET F == call.T.of[j]
                subtree == call.v.items[i]
                alone == Decode(call.op, subtree, F.of[1], call.tr, InitCells)
            IN  (/\ F.t = "ShouldBe"
                 /\ call.v.keys[i].k = "String"
                 /\ call.v.keys[i].s = call.T.names[j]
                 /\ ~alone.ok)
                => /\ call.ok
                   /\ call.val.items[j].k = "ButIsnt"
                   /\ StripSpans(call.val.items[j]).items = <<StripSpans(subtree)>>
                   /\ call.val.items[j].keys[1].s = alone.err.s
                   /\ call.val.items[j].keys[1].m = alone.err.m

\* C3: for every Value, target type, callback and transformer, into_typed
\* and to_typed give equal results: both succeed with equal decoded values
\* or both fail.
C3_IntoTypedEqualsToTyped ==
    (pc = "returned" /\ call.op = "into_typed") =>
        LET borrowed == Decode("to_typed", call.v, call.T, call.tr, call.pre)
        IN  /\ call.ok = borrowed.ok
            /\ call.ok => StripSpans(call.val) = StripSpans(borrowed.val)

\* the key names a declared field of the struct type T
IsField(key, T) == key.k = "String" /\ \E j \in DOMAIN T.names : T.names[j] = key.s
\* T declares a catch-all (flatten) field
HasCatchAll(T) == \E j \in DOMAIN T.names : is_flatten_key(T.names[j])
\* the entries of a mapping whose keys name declared fields of T
FieldsOnly(mapping, T) ==
    LET keep == [i \in DOMAIN mapping.keys |-> IsField(mapping.keys[i], T)]
    IN  Mapping(SelectSeqOf(mapping.keys, keep), SelectSeqOf(mapping.items, keep), mapping.sp)
\* how many times the unused-key callback was called with the key
Reported(key) == Cardinality({n \in DOMAIN call.unused : call.unused[n].key = key})
\* a mapping decoded into a struct whose declared fields all decode, the
\* transformer failing on no node it was called on
Struct_from_Mapping ==
    /\ Returned_from_Value /\ call.T.t = "Struct" /\ call.v.k = "Mapping"
    /\ \A n \in DOMAIN call.offered : transformer(call.tr, call.offered[n].v).kind # "Err"
    /\ Decode(call.op, FieldsOnly(call.v, call.T), call.T, call.tr, call.pre).ok

\* C4: decoding a mapping into a struct calls the unused-key callback
\* exactly once for each key that matches no declared field and is not
\* absorbed by a catch-all field, and never for a key when the struct
\* declares a catch-all field.
C4_CallbackOncePerUnusedKey ==
    Struct_from_Mapping =>
        \A i \in DOMAIN call.v.keys :
            ~IsField(call.v.keys[i], call.T) =>
                Reported(call.v.keys[i]) = IF HasCatchAll(call.T) THEN 0 ELSE 1

\* C5: a mapping key that is no declared field of the struct never makes
\* the decode fail: it is absorbed or reported and skipped, and the decode
\* of the other entries goes on to a successful result.
C5_UnknownKeyNeverFails ==
    (Struct_from_Mapping /\ \E i \in DOMAIN call.v.keys : ~IsField(call.v.keys[i], call.T))
        => call.ok

IsPrefix(p, q) == Len(p) <= Len(q) /\ SubSeq(q, 1, Len(p)) = p
\* the transformer was called on a node at or below the path
OfferedUnder(path) == \E n \in DOMAIN call.offered : IsPrefix(path, call.offered[n].path)
\* entry i of the source mapping is the declared field j of the target struct
IsEntryOf(i, j) == call.v.keys[i].k = "String" /\ call.v.keys[i].s = call.T.names[j]

IsAbsent(j) == \A i \in DOMAIN call.v.keys : ~IsEntryOf(i, j)
\* a mapping decoded into a struct, where every key is a plain string and
\* every entry of a declared field decodes as the type of the field
Struct_from_plain_Mapping ==
    /\ Returned_from_Value /\ call.T.t = "Struct" /\ call.v.k = "Mapping"
    /\ \A i \in DOMAIN call.v.keys :
          /\ call.v.keys[i].k = "String" /\ ~is_flatten_key(call.v.keys[i].s)
          /\ \A j \in DOMAIN call.T.names :
                IsEntryOf(i, j) =>
                    Decode(call.op, call.v.items[i], call.T.of[j], call.tr, InitCells).ok
\* T decodes from a field that is not there
DecodesFromMissing(T) == Decode("verbatim_into_typed", Nil, T, "absent", InitCells).ok

\* C7 as stated: a Verbatim<T> field absent from the source mapping decodes
\* to the missing state of the wrapper, which differs from a present Null.
C7_AbsentIsMissing ==
    Struct_from_plain_Mapping =>
        \A j \in DOMAIN call.T.names :
            (call.T.of[j].t = "Verbatim" /\ IsAbsent(j)) =>
                call.ok /\ call.val.items[j] = Verbatim(<<>>)

\* C7 amended: an absent Verbatim<T> field decodes to the missing state when
\* T decodes from a missing field, and fails the struct with the missing
\* field error when T does not; a field present with Null is captured as
\* Null, which is not the missing state.
C7_AbsentIsMissingWhenTAllows ==
    Struct_from_plain_Mapping =>
        \A j \in DOMAIN call.T.names :
            call.T.of[j].t = "Verbatim" =>
                /\ (IsAbsent(j) /\ DecodesFromMissing(call.T.of[j].of[1]))
                       => call.ok /\ call.val.items[j] = Verbatim(<<>>)
                /\ (IsAbsent(j) /\ ~DecodesFromMissing(call.T.of[j].of[1]))
                       => ~call.ok /\ starts_with_missing_field(call.err)
                /\ \A i \in DOMAIN call.v.keys :
                       (IsEntryOf(i, j) /\ call.v.items[i].k = "Null" /\ call.ok)
                           => /\ call.val.items[j] = Verbatim(<<call.v.items[i]>>)
                              /\ call.val.items[j] # Verbatim(<<>>)

\* an absent Verbatim<Option<i32>> field read as missing
C7_Witness ==
    /\ Returned_from_Value /\ call.ok
    /\ call.T = S_yo /\ call.v = Mapping(<<>>, <<>>, SrcSpan)
    /\ call.val = D_Struct(<<Verbatim(<<>>)>>)

\* C8: when into_typed or to_typed returns, with a value or with an error,
\* the marker is unset, the apply-transform flag is on, the may-fail flag is
\* off, the last-failure slot is empty, the fast-path flag is off and the
\* fast-path value is empty.
C8_CellsBackToInitial ==
    Returned_from_Value =>
        /\ MARKER = InitCells.MARKER
        /\ SHOULD_TRANSFORM_ANY = InitCells.SHOULD_TRANSFORM_ANY
        /\ EXPECTING_SHOULD_BE = InitCells.EXPECTING_SHOULD_BE
        /\ WHY_NOT = InitCells.WHY_NOT
        /\ IS_DESERIALIZING_VALUE = InitCells.IS_DESERIALIZING_VALUE
        /\ THE_VALUE = InitCells.THE_VALUE

\* C9: in any sequence of decodes on one thread, a ShouldBe<T> whose inner
\* decode fails on a deserializer that is no Value deserializer has no raw
\* value.
C9_RawOnlyFromValue ==
    (pc = "returned" /\ call.op = "verbatim_into_typed" /\ call.T.t = "ShouldBe"
        /\ call.ok /\ call.val.k = "ButIsnt")
        => call.val.items = <<>>

\* C10: for every Value decoded into a Value target, the fast path gives
\* the result that decoding the same subtree node by node gives, with and
\* without a field transformer.
C10_FastPathEqualsNodeByNode ==
    (Returned_from_Value /\ call.T = T_Value) =>
        LET slow == Decode(call.op, call.v, T_ValueVisitor, call.tr, call.pre)
        IN  /\ call.ok = slow.ok
            /\ call.ok => StripSpans(call.val) = StripSpans(slow.val)

\* C11: for every Value v, decoding v into the target type Value, by
\* into_typed or to_typed with a transformer that replaces nothing, succeeds
\* with a Value equal to v up to spans.
C11_IdentityDecodeRoundTrips ==
    (Returned_from_Value /\ call.T = T_Value /\ call.tr = "keep") =>
        /\ call.ok
        /\ StripSpans(call.val) = StripSpans(call.v)

\* a nested mapping read back as itself
C11_Witness ==
    /\ Returned_from_Value /\ call.T = T_Value /\ call.tr = "keep" /\ call.ok
    /\ call.v = Map2(Str("a"), Num(1), Str("b"), Sequence(<<Num(1)>>, SrcSpan))
    /\ call.val = call.v

\* a failed decode of one Value into T, from the initial cells, with a
\* transformer that fails on no node
Failed_alone ==
    /\ Returned_from_Value /\ ~call.ok
    /\ call.pre = InitCells
    /\ call.tr # "fail_str"

\* C12: every error returned to the caller of into_typed or to_typed
\* carries the span of a node of the input, and a kind mismatch at the root,
\* whatever the target, is an invalid-type error with the span of the root.
C12_ErrorsCarryTheSpan ==
    Failed_alone =>
        /\ call.err.sp # NoSpan
        /\ call.err.s = "invalid_type" => call.err.sp = call.v.sp

\* the transformer failed on a node it was called on during the call
TransformerFailed ==
    \E n \in DOMAIN call.offered : transformer(call.tr, call.offered[n].v).kind = "Err"

\* C13: if the field transformer returns an error for any node during
\* into_typed or to_typed, the decode fails with an error of the external
\* kind that wraps the error the transformer returned.
C13_TransformerErrorIsExternal ==
    (Returned_from_Value /\ TransformerFailed) =>
        /\ ~call.ok
        /\ call.err.s = External(call.tr).s
        /\ call.err.m = External(call.tr).m

RECURSIVE HasShouldBe(_)
\* the target type is, or holds, a ShouldBe
HasShouldBe(T) == T.t = "ShouldBe" \/ \E j \in DOMAIN T.of : HasShouldBe(T.of[j])

\* the Value decode that Verbatim<T>::deserialize runs for a field that is
\* not in the source: serde hands it the deserializer of a missing field
Verbatim_inner_of_absent == deserialize(SerdeMissingField, WithLogs(InitCells))
\* the deserialize_any that value::de::deserialize runs on the root
Value_inner == Dispatch(TopDeserializer(call.op, call.v, call.tr), "any", T_ValueVisitor,
                        [WithLogs(call.pre) EXCEPT !.IS_DESERIALIZING_VALUE = TRUE])
\* the decode of a part of the input by the type that reads it raises an
\* error: an entry of a declared field of a struct, the node under a newtype
PartFails ==
    \/ /\ call.T.t = "Struct" /\ call.v.k = "Mapping"
       /\ \E i \in DOMAIN call.v.keys, j \in DOMAIN call.T.names :
             /\ IsEntryOf(i, j) /\ ~is_flatten_key(call.T.names[j])
             /\ ~Decode(call.op, call.v.items[i], call.T.of[j], call.tr, InitCells).ok
    \/ /\ call.T.t = "Newtype"
       /\ ~Decode(call.op, call.v, call.T.of[1], call.tr, call.pre).ok
\* an absent Verbatim<T> field whose Value decode raises an error
AbsentVerbatimFails(j) ==
    /\ call.T.t = "Struct" /\ call.v.k = "Mapping"
    /\ call.T.of[j].t = "Verbatim" /\ IsAbsent(j)
    /\ ~Verbatim_inner_of_absent.ok

\* C14 as stated: ShouldBe is the only component that absorbs a decode
\* error: every error raised while decoding a subtree that no ShouldBe
\* target encloses makes the top-level call fail.
C14_OnlyShouldBeAbsorbs ==
    (Returned_from_Value /\ ~HasShouldBe(call.T)) =>
        /\ PartFails => ~call.ok
        /\ \A j \in DOMAIN call.T.names : AbsentVerbatimFails(j) => ~call.ok
        /\ (call.T = T_Value /\ ~Value_inner.ok) => ~call.ok

\* C14 amended: outside ShouldBe an error raised while decoding a part of
\* the input makes the top-level call fail, but for two recoveries:
\* Verbatim<T> turns the missing-field error of an absent field into its
\* missing state when T decodes from a missing field (and fails otherwise),
\* and the decode of a Value consumes the fast-path error of deserialize_any
\* and answers the node that was stored.
C14_ErrorsPropagateButForVerbatimAndFastPath ==
    (Returned_from_Value /\ ~HasShouldBe(call.T)) =>
        /\ PartFails => ~call.ok
        /\ \A j \in DOMAIN call.T.names :
              (AbsentVerbatimFails(j) /\ ~DecodesFromMissing(call.T.of[j].of[1])) => ~call.ok
        /\ (call.T = T_Value /\ ~Value_inner.ok /\ Value_inner.err # FastPathError) => ~call.ok

\* a struct whose field fails to decode, failing as a whole
C14_Witness ==
    /\ Returned_from_Value /\ ~call.ok
    /\ call.T = S_ab /\ call.tr = "keep"
    /\ call.v = Map1(Str("a"), Str("a"))
    /\ call.err.s = "invalid_type"

\* the variant of the enum type T with the name, or 0
VariantIndex(T, name) ==
    IF \E i \in DOMAIN T.names : T.names[i] = name
    THEN CHOOSE i \in DOMAIN T.names : T.names[i] = name
    ELSE 0
\* a Value decoded into an enum target, the transformer leaving the root as it is
Enum_from_Value ==
    /\ Returned_from_Value /\ call.T.t = "Enum"
    /\ transformer(call.tr, call.v).kind = "None"
\* the value under the tag decoded alone as the payload type P
PayloadAlone(P) ==
    Decode(call.op, call.v.items[1], P, call.tr,
           [call.pre EXCEPT !.EXPECTING_SHOULD_BE = FALSE])

\* C15: decoding a Value into an enum: a Tagged node selects the variant
\* named by its tag without the leading sigil and decodes the value under
\* the tag as the payload of that variant (nothing but Null for a unit
\* variant); a plain String selects the unit variant of that name; every
\* other kind of Value fails with an invalid-type error.
C15_EnumDecode ==
    Enum_from_Value =>
        LET name == IF call.v.k = "Tagged" THEN nobang(call.v) ELSE call.v.s
            i == VariantIndex(call.T, name)
        IN  CASE call.v.k = "Tagged" /\ i # 0 /\ PayloadOf(call.T, i) = T_Unit ->
                    IF call.v.items[1].k = "Null"
                    THEN call.ok /\ call.val = D_Variant(name)
                    ELSE ~call.ok
              [] call.v.k = "Tagged" /\ i # 0 ->
                    /\ call.ok = PayloadAlone(PayloadOf(call.T, i)).ok
                    /\ call.ok => call.val = D_VariantOf(name, PayloadAlone(PayloadOf(call.T, i)).val)
              [] call.v.k = "String" /\ i # 0 /\ PayloadOf(call.T, i) = T_Unit ->
                    call.ok /\ call.val = D_Variant(name)
              [] call.v.k \in {"Tagged", "String"} -> ~call.ok
              [] OTHER -> ~call.ok /\ call.err.m = unexpected(call.v)

\* the tag !n selecting the newtype variant n, read from the number under it
C15_Witness ==
    /\ Returned_from_Value /\ call.T = E_an /\ call.tr = "keep"
    /\ call.v = Tagged("!", "n", Num(1), SrcSpan)
    /\ call.ok /\ call.val = D_VariantOf("n", D_i32(1))

Returned_from_str == pc = "returned" /\ call.op = "from_str"

RECURSIVE DupPaths(_, _)
\* the paths of the keys of the document that repeat an earlier key of
\* their mapping
DupPaths(node, path) ==
    CASE node.k = "Mapping" ->
            {Append(path, SegMap(node.keys[j].s)) :
                 j \in {j \in DOMAIN node.keys : \E i \in 1..(j - 1) : node.keys[i].s = node.keys[j].s}}
            \cup UNION {DupPaths(node.items[i], Append(path, SegMap(node.keys[i].s))) :
                            i \in DOMAIN node.items}
      [] node.k = "Sequence" ->
            UNION {DupPaths(node.items[i], Append(path, SegSeq(i - 1))) : i \in DOMAIN node.items}
      [] OTHER -> {}

RECURSIVE Resolved(_, _)
\* the Value of the document when every repeated key keeps its first
\* (decision First) or its last (any other decision) value, without spans
Resolved(node, decision) ==
    CASE node.k = "Mapping" ->
            LET first == [i \in DOMAIN node.keys |->
                             \A h \in 1..(i - 1) : node.keys[h].s # node.keys[i].s]
                pick(i) == IF decision = "First" THEN i
                           ELSE CHOOSE j \in DOMAIN node.keys :
                                    /\ node.keys[j].s = node.keys[i].s
                                    /\ \A h \in DOMAIN node.keys :
                                           node.keys[h].s = node.keys[i].s => h <= j
                values == [i \in DOMAIN node.keys |-> Resolved(node.items[pick(i)], decision)]
                keys == [i \in DOMAIN node.keys |-> [node.keys[i] EXCEPT !.sp = NoSpan]]
            IN  Mapping(SelectSeqOf(keys, first), SelectSeqOf(values, first), NoSpan)
      [] node.k = "Sequence" ->
            Sequence([i \in DOMAIN node.items |-> Resolved(node.items[i], decision)], NoSpan)
      [] OTHER -> [node EXCEPT !.sp = NoSpan]

\* C16: while a Mapping is built from parsed text, a repeated key calls
\* the duplicate-key callback and its decision settles the outcome: Error
\* fails the parse with an error that names the path of the key, First
\* keeps the first value of the key and Last the later one; Value's plain
\* Deserialize decides Error; a document without repeated keys is read as
\* it is.
C16_DuplicateKeyDecision ==
    Returned_from_str =>
        IF DupPaths(call.v, Root) # {} /\ call.tr \in {"Error", "plain"}
        THEN ~call.ok /\ call.err.keys \in DupPaths(call.v, Root)
        ELSE call.ok /\ StripSpans(call.val) = Resolved(call.v, call.tr)

\* a repeated key x under the decision Last: the later value 2 is its value
C16_Witness ==
    /\ Returned_from_str /\ call.tr = "Last" /\ call.v = Doc_x("x")
    /\ call.ok
    /\ StripSpans(call.val) = Mapping(<<String("x", NoSpan)>>, <<Number(2, NoSpan)>>, NoSpan)


\* C18: the root Value of every document that parses has a valid span
\* (start not after end, positive lines and columns) that starts at offset
\* 0, line 1, column 1 and ends where the document ends; the 14 bytes of
\* x: 1.0 and y: 2.0 give the root the span [0, 14).
C18_RootSpanCoversTheDocument ==
    (Returned_from_str /\ call.ok) =>
        /\ is_valid(call.val.sp)
        /\ call.val.sp[1] = Marker(0, 1, 1)
        /\ call.val.sp[2] = call.v.sp[2]

\* the document of x and y parsed by Value::from_str: root span [0, 14)
C18_Witness ==
    /\ Returned_from_str /\ call.tr = "Error" /\ call.v = Doc_x("y")
    /\ call.ok
    /\ call.val.sp = <<Marker(0, 1, 1), Marker(14, 3, 1)>>
    /\ call.val.items[1].sp = <<Marker(3, 1, 4), Marker(7, 2, 1)>>


\* the entries of a mapping as a set of <<key, value>> pairs
Pairs(mapping) == {<<mapping.keys[i], mapping.items[i]>> : i \in DOMAIN mapping.keys}

\* r is the flat mapping the merge rules give for the mapping m: the
\* explicit entries of m, and for every other key of a source the entry of
\* the earliest source that has the key
MergedAsSpecified(m, r) ==
    LET sources == merge_sources(m.items[MergeIndex(m)])
        explicit == {i \in DOMAIN m.keys : ~is_merge_key(m.keys[i])}
        from_sources == {p \in UNION {Pairs(sources[s]) : s \in DOMAIN sources} :
                            /\ \A i \in explicit : m.keys[i] # p[1]
                            /\ \E s \in DOMAIN sources :
                                   /\ p \in Pairs(sources[s])
                                   /\ \A t \in 1..(s - 1) :
                                          \A q \in Pairs(sources[t]) : q[1] # p[1]}
    IN  /\ r.k = "Mapping"
        /\ Pairs(r) = {<<m.keys[i], m.items[i]>> : i \in explicit} \cup from_sources
        /\ \A i, j \in DOMAIN r.keys : r.keys[i] = r.keys[j] => i = j

\* a mapping with a merge entry whose sources are all mappings
Mergeable(m) ==
    /\ m.k = "Mapping" /\ MergeIndex(m) # 0
    /\ \A s \in DOMAIN merge_sources(m.items[MergeIndex(m)]) :
           merge_sources(m.items[MergeIndex(m)])[s].k = "Mapping"

Returned_apply_merge == pc = "returned" /\ call.op = "apply_merge"

\* C17: merge expansion replaces a mapping that has a merge key by a flat
\* mapping in which every explicit key keeps its literal value and every
\* key that only merge sources supply takes its value from the earliest
\* source, in the order listed, that defines it.
C17_MergeExpansion ==
    Returned_apply_merge =>
        /\ Mergeable(call.v) => call.ok /\ MergedAsSpecified(call.v, call.val)
        /\ (call.v.k = "Sequence" /\ \A i \in DOMAIN call.v.items :
                call.v.items[i].k = "Mapping" /\ (MergeIndex(call.v.items[i]) # 0 => Mergeable(call.v.items[i])))
           => /\ call.ok
              /\ \A i \in DOMAIN call.v.items :
                     IF MergeIndex(call.v.items[i]) # 0
                     THEN MergedAsSpecified(call.v.items[i], call.val.items[i])
                     ELSE call.val.items[i] = call.v.items[i]

\* {<<: [CENTER, BIG], label: v} became {x: 1, y: 2, r: 10, label: v}
C17_Witness ==
    /\ Returned_apply_merge /\ call.ok
    /\ call.v = Merging(Sequence(<<CENTER, BIG>>, NoSpan), <<>>, <<>>)
    /\ Pairs(call.val) = Pairs(Explicit)


Returned_fmt == pc = "returned" /\ call.op = "fmt"

\* C19: Display renders the root as ".", a Map segment as its parent's
\* rendering, "." and the key (the key alone under the root), a Seq
\* segment as its parent's rendering and "[index]", an Alias segment as its
\* parent's rendering, and an Unknown segment with a trailing "?"; the path
\* root -> a -> b -> index 2 -> c renders as a.b[2].c.
C19_PathDisplay ==
    Returned_fmt =>
        LET path == call.v.keys
            text == call.val.items
            parent == SubSeq(path, 1, Len(path) - 1)
            last == path[Len(path)]
        IN  /\ path = Root => text = <<".">>
            /\ (path # Root /\ last.seg = "Map") =>
                   text = IF parent = Root THEN <<last.key>>
                          ELSE Display(parent) \o <<".", last.key>>
            /\ (path # Root /\ last.seg = "Seq") =>
                   text = Display(parent) \o <<"[", IndexText(last.index), "]">>
            /\ (path # Root /\ last.seg = "Alias") => text = Display(parent)
            /\ (path # Root /\ last.seg = "Unknown") => text[Len(text)] = "?"
            /\ path = Path_a_b_2_c => text = <<"a", ".", "b", "[", "2", "]", ".", "c">>

\* the path root -> a -> b -> index 2 -> c has been rendered
C19_Witness ==
    /\ Returned_fmt /\ call.v.keys = Path_a_b_2_c
    /\ call.val.items = <<"a", ".", "b", "[", "2", "]", ".", "c">>


\* C20: whenever ShouldBe<T>::deserialize returns, whatever the
\* deserializer, T and the outcome, the may-fail flag is false and the
\* last-failure slot is empty (here: a ShouldBe target decoded on a thread
\* whose cells were as at thread start).
C20_ShouldBeLeavesNoFlagNoFailure ==
    (/\ pc = "returned" /\ call.op \in {"into_typed", "to_typed"}
     /\ call.T.t = "ShouldBe" /\ call.pre = InitCells)
        => EXPECTING_SHOULD_BE = FALSE /\ WHY_NOT = <<>>


\* the node the transformer answers for v, or v itself when it answers None
Replacement(tr, v) ==
    IF transformer(tr, v).kind = "Some" THEN transformer(tr, v).v ELSE v

\* C21: during into_typed and to_typed the transformer is applied at most
\* once per logical field value: a node that has been offered to the
\* transformer is not offered again at the same path, and neither is its
\* replacement, when the decode recurses through an Option or a newtype.
C21_TransformedAtMostOnce ==
    Returned_from_Value =>
        \A i, j \in DOMAIN call.offered :
            (i < j /\ call.offered[i].path = call.offered[j].path)
                => /\ call.offered[j].v # call.offered[i].v
                   /\ call.offered[j].v # Replacement(call.tr, call.offered[i].v)


\* C22: a decode into Verbatim or VerbatimLegacy keeps the apply-transform
\* flag disabled for the whole inner decode (nothing below it is offered to
\* the transformer, nested verbatim targets included) and leaves the flag,
\* when it returns with success or with failure, as it was before.
C22_VerbatimRestoresTheFlag ==
    (pc = "returned" /\ call.op \in {"into_typed", "to_typed", "verbatim_into_typed"}) =>
        /\ SHOULD_TRANSFORM_ANY = call.pre.SHOULD_TRANSFORM_ANY
        /\ call.T.t \in {"Verbatim", "VerbatimLegacy"} => call.offered = <<>>

\* a VerbatimLegacy struct whose first field is a Verbatim: the number of
\* the field after it is kept as it is by a transformer that adds 100
C22_Witness ==
    /\ Returned_from_Value /\ call.T = T_VerbatimLegacy(S_vb) /\ call.tr = "add100"
    /\ call.v = Map2(Str("a"), Num(1), Str("b"), Num(1))
    /\ call.ok /\ call.offered = <<>>
    /\ call.val.items[1].items[2] = D_i32(1)
    /\ SHOULD_TRANSFORM_ANY


(***************************************************************************)
(* The order a struct decode presents its entries in, and the deferred     *)
(* pool of a struct with catch-all fields.                                  *)
(***************************************************************************)
PoolPairs(pool) == {<<pool.keys[i], pool.items[i]>> : i \in DOMAIN pool.keys}
PresentedAt(path) == SelectSeq(call.presented, LAMBDA e : e.path = path)
FlattenedAt(path) == SelectSeq(call.flattened, LAMBDA e : e.path = path)
Rank(kind) == CASE kind = "entry" -> 1 [] kind = "flatten" -> 2 [] OTHER -> 3
NormalNames(T) == SelectSeq(T.names, LAMBDA n : n \notin FlattenKeys)
CatchAlls(T) == SelectSeq(T.names, LAMBDA n : n \in FlattenKeys)
NamesNormalField(T, key) ==
    key.k = "String" /\ \E i \in DOMAIN NormalNames(T) : NormalNames(T)[i] = key.s
\* the source entries that name a normal field, and the others, in source order
NormalEntries(T, v) == SelectSeq(v.keys, LAMBDA key : NamesNormalField(T, key))
SetAside(T, v) ==
    LET keep == [i \in DOMAIN v.keys |-> ~NamesNormalField(T, v.keys[i])]
    IN  [keys |-> SelectSeqOf(v.keys, keep), items |-> SelectSeqOf(v.items, keep)]
StructFromMapping ==
    /\ Returned_from_Value /\ call.ok
    /\ call.T.t = "Struct" /\ call.v.k = "Mapping"

\* C23: a struct decode presents the source entries that name a normal field
\* in source order, then each declared catch-all key once in declaration
\* order, then end-of-map; each catch-all is handed the pool as the one
\* before it left it, and the pool is empty when a struct decode finishes.
C23_StructPresentationOrder ==
    StructFromMapping =>
        LET pres == PresentedAt(Root)
            fl == FlattenedAt(Root)
            handed == SelectSeq(fl, LAMBDA e : e.phase = "handed")
            given == SelectSeq(fl, LAMBDA e : e.phase = "returned")
        IN  /\ \A i, j \in DOMAIN pres : i < j => Rank(pres[i].kind) <= Rank(pres[j].kind)
            /\ [i \in DOMAIN SelectSeq(pres, LAMBDA e : e.kind = "entry") |->
                    SelectSeq(pres, LAMBDA e : e.kind = "entry")[i].key]
                   = NormalEntries(call.T, call.v)
            /\ [i \in DOMAIN SelectSeq(pres, LAMBDA e : e.kind = "flatten") |->
                    SelectSeq(pres, LAMBDA e : e.kind = "flatten")[i].key.s]
                   = CatchAlls(call.T)
            /\ Len(SelectSeq(pres, LAMBDA e : e.kind = "end")) = 1
            /\ Len(handed) = Len(CatchAlls(call.T))
            /\ \A i \in DOMAIN handed :
                   /\ handed[i].last = (i = Len(handed))
                   /\ handed[i].pool = IF i = 1 THEN SetAside(call.T, call.v)
                                       ELSE given[i - 1].pool
            /\ \A i \in DOMAIN call.presented :
                   call.presented[i].kind = "end" => call.presented[i].rest = EmptyPool

\* C24: what a catch-all that is not the last hands back to the pool of the
\* struct are entries of the pool it was handed, and nothing else.
C24_HandsBackOnlyPoolEntries ==
    Returned_from_Value =>
        \A j \in DOMAIN call.flattened :
            call.flattened[j].phase = "returned" =>
                \E i \in 1..(j - 1) :
                    /\ call.flattened[i].phase = "handed"
                    /\ call.flattened[i].path = call.flattened[j].path
                    /\ call.flattened[i].key = call.flattened[j].key
                    /\ PoolPairs(call.flattened[j].pool) \subseteq PoolPairs(call.flattened[i].pool)


\* C25: after into_typed or to_typed has decoded a Value target, which the
\* fast path serves, the fast-path value, the stored unused-key callback and
\* the stored field transformer are all empty.
C25_FastPathSlotsEmpty ==
    (Returned_from_Value /\ call.T = T_Value /\ call.ok) =>
        /\ THE_VALUE = <<>>
        /\ UNUSED_KEY_CALLBACK = FALSE
        /\ FIELD_TRANSFORMER = FALSE

(***************************************************************************)
(* The derived Deserialize of an untagged enum.                            *)
(***************************************************************************)
AttemptsAt(path) == SelectSeq(call.attempts, LAMBDA a : a.path = path)
UntaggedAtRoot == Returned_from_Value /\ call.T.t = "Untagged"

\* C26: the derived decode of an untagged enum tries the variants in
\* declaration order and returns the first whose decode succeeds; the
\* callback of the caller receives exactly the unused keys of the successful
\* attempt, once each and in the order seen; when no variant succeeds the
\* decode fails with 'data did not match any variant of untagged enum <Name>'.
C26_UntaggedFirstSuccess ==
    UntaggedAtRoot =>
        LET tried == AttemptsAt(Root)
            n == Len(tried)
        IN  /\ n >= 1
            /\ \A i \in 1..n : tried[i].variant = i
            /\ \A i \in 1..(n - 1) : ~tried[i].ok
            /\ call.ok = tried[n].ok
            /\ call.ok => /\ call.val.k = "Variant"
                          /\ call.val.s = call.T.names[n + 1]
                          /\ call.unused = tried[n].seen
            /\ ~call.ok => /\ n = Len(call.T.of)
                           /\ call.err.k = "Error"
                           /\ call.err.m = err_message(call.T)
                           /\ call.unused = <<>>

C26_Witness ==
    /\ UntaggedAtRoot /\ call.ok
    /\ Len(AttemptsAt(Root)) = 2
    /\ AttemptsAt(Root)[1].seen # <<>>
    /\ call.unused # <<>>

C26_WitnessNoVariant ==
    /\ UntaggedAtRoot /\ ~call.ok
    /\ Len(AttemptsAt(Root)) = 3

(***************************************************************************)
(* Spans made of the position markers around a decode.                     *)
(***************************************************************************)
MarkerOrZero(marker) == IF marker = <<>> THEN Marker_zero ELSE marker[1]

C27_WitnessNoMarker ==
    /\ Returned_from_Value /\ call.ok /\ call.val.k = "Spanned"
    /\ call.spans # <<>>
    /\ call.spans[1].before = <<>>
    /\ call.val.sp = NoSpan

\* C28: a decode whose visitor finishes while elements of the sequence, or
\* entries of the mapping or struct, are left unconsumed fails, and its
\* invalid-length error reports the original number of elements.
C28_WrongArityIsAnError ==
    Returned_from_Value =>
        /\ (call.T.t = "Tuple" /\ call.v.k = "Sequence" /\ call.tr = "keep"
                /\ Len(call.v.items) > Len(call.T.of))
               => /\ ~call.ok
                  /\ call.err.m = "invalid length" => call.err.n = Len(call.v.items)
        /\ (\E i \in DOMAIN call.presented :
                /\ call.presented[i].kind = "end"
                /\ call.presented[i].rest # EmptyPool)
               => ~call.ok
        /\ (call.T.t = "Struct" /\ call.v.k = "Mapping" /\ call.tr = "keep"
                /\ ~call.ok /\ call.err.m = "invalid length")
               => call.err.n = Len(call.v.keys)

(***************************************************************************)
(* The paths the elements of a sequence and the values of a mapping are    *)
(* decoded under.                                                          *)
(***************************************************************************)
OfferedAtDepth(n) == SelectSeq(call.offered, LAMBDA e : Len(e.path) = n)
ElementsDecoded == Returned_from_Value /\ call.ok
ValueSegment(key) == IF key.k = "String" THEN SegMap(key.s) ELSE SegUnknown

\* C29: the elements of a sequence are decoded in order, the i-th (from 0)
\* under Seq{parent, index: i}; the value of a mapping entry is decoded
\* under Map{parent, key} when its key is a string and under Unknown{parent}
\* when it is not.
C29_ElementPaths ==
    ElementsDecoded =>
        /\ (call.v.k = "Sequence" /\ call.T.t \in {"Vec", "Tuple"})
               => /\ OfferedAtDepth(1) =
                         [i \in DOMAIN call.v.items |->
                              [path |-> <<SegSeq(i - 1)>>, v |-> call.v.items[i]]]
                  /\ \A i, j \in DOMAIN call.offered :
                         (i < j /\ Len(call.offered[i].path) = 1 /\ Len(call.offered[j].path) = 1)
                             => call.offered[i].path[1].index < call.offered[j].path[1].index
                  /\ \A i \in DOMAIN call.offered :
                         Len(call.offered[i].path) = 2
                             => /\ call.offered[i].path[1].seg = "Seq"
                                /\ call.offered[i].path[2].seg = "Seq"
                                /\ call.offered[i].v =
                                       call.v.items[call.offered[i].path[1].index + 1]
                                           .items[call.offered[i].path[2].index + 1]
        /\ (call.v.k = "Mapping" /\ call.T.t = "HashMap")
               => OfferedAtDepth(1) =
                      [i \in DOMAIN call.v.keys |->
                           [path |-> <<ValueSegment(call.v.keys[i])>>, v |-> call.v.items[i]]]

C29_Witness ==
    /\ ElementsDecoded
    /\ call.v.k = "Mapping" /\ call.T.t = "HashMap"
    /\ Len(call.v.keys) = 2
    /\ call.v.keys[1].k = "Number" /\ call.v.keys[2].k = "Number"
    /\ OfferedAtDepth(1)[1].path = <<SegUnknown>>
    /\ OfferedAtDepth(1)[2].path = <<SegUnknown>>

C29_WitnessStringKeys ==
    /\ ElementsDecoded
    /\ call.v.k = "Mapping" /\ call.T = T_HashMap(T_Vec(T_i32))
    /\ Len(call.v.keys) = 2
    /\ OfferedAtDepth(1)[1].path = <<SegMap("b")>>
    /\ OfferedAtDepth(1)[2].path = <<SegMap("a")>>

C29_WitnessSequence ==
    /\ ElementsDecoded
    /\ call.v.k = "Sequence" /\ call.T = T_Vec(T_Vec(T_i32))
    /\ Len(call.v.items) = 2
    /\ \E i \in DOMAIN call.offered : call.offered[i].path = <<SegSeq(1), SegSeq(1)>>

\* C30: for any two ShouldBe values a and b, cmp(a, b) is Equal exactly
\* when a == b, and partial_cmp(a, b) is Some(cmp(a, b)).
C30_ComparisonsAgree ==
    (pc = "returned" /\ call.op = "compare") =>
        /\ (call.cmp = "Equal") = call.eq
        /\ call.partial_cmp = <<call.cmp>>
====
